---- MODULE Spec2Model ----
(***************************************************************************)
(* Model of the EBB (Ethical Black Box) record store: EBBCore of           *)
(* src/main_EN.py (src/main_CN.py is the same code with Chinese messages)  *)
(* and the handlers of EBBGUIApplication that write the store directly.    *)
(*                                                                         *)
(* Text.  A Python string is a sequence of atoms.  An atom is the space    *)
(* " ", the colon ":" or a word, a TLA+ string holding neither.  split and *)
(* join therefore work on the real delimiters, and len() is the sum of the *)
(* atoms' lengths.  The code never joins two words without a delimiter     *)
(* between them, so equal strings are equal sequences of atoms.            *)
(*                                                                         *)
(* Numbers are fixed-point, in hundredths: 95.5 is 9550.  A sensor or      *)
(* actuator value is the tuple of its components: <<9550>>, or the three   *)
(* of a gyroscope reading.                                                 *)
(***************************************************************************)
EXTENDS Integers, Sequences, FiniteSets, TLC

\* ------------------------------------------------------------------ bounds
MaxCap == 2        \* largest capacity given to the constructor or the settings
MaxIdx == 4        \* current_record_index stops growing here
MaxClock == 1      \* the clock (milliseconds) stops here
MaxFields == 2     \* most fields of a record whose line is read back
MaxExports == 1    \* exports to the one target file
MaxThreads == 2    \* threads of auto_log_worker that have not ended

VARIABLES
    max_records,            \* EBBCore.max_records
    records,                \* EBBCore.records: the list of RD records (storage slots)
    meta_data,              \* EBBCore.meta_data (None or the MD record)
    data_data,              \* EBBCore.data_data (None or the DD record)
    current_record_index,   \* EBBCore.current_record_index: the cursor
    clock,                  \* the last value datetime.now() returned, in ms
    ids,                    \* history: ids[i] is the arrival number of records[i]
    arrived,                \* history: how many records entered the buffer since
                            \* it was last empty (imported records in file order)
    lastOp,                 \* history: the last operation and how it ended
    lastInput,              \* history: which file the last successful import read, or
                            \* which of ManyInputs the last appendEvent was given, or 0
    onlyAppends,            \* history: nothing but appendEvent calls so far
    appendsDone,            \* history: how many of them returned, while onlyAppends
    sample,                 \* the record whose line _parse_record_line is given
    roundTrip,              \* what the line was read as and written back as
    target,                 \* the text of the file export_records is given, on disk
    export,                 \* export_records: where it stands, what f holds unflushed,
                            \* the text of the file when it was called, the calls so far
    worker,                 \* the thread of auto_log_worker: where it stands in
                            \* add_robot_data_record, and its local values
    ui,                     \* the window's thread: where it stands in clear_records
    logging                 \* the flag auto_logging, where each thread of
                            \* auto_log_worker stands, and whether the window is
                            \* in manual_log

\* the store with its history, and what the operations on the store leave alone
storeVars == <<max_records, records, meta_data, data_data, current_record_index,
               clock, ids, arrived, lastOp, lastInput, onlyAppends, appendsDone>>
aside == <<sample, roundTrip, target, export, worker, ui, logging>>

vars == <<max_records, records, meta_data, data_data, current_record_index,
          clock, ids, arrived, lastOp, lastInput, onlyAppends, appendsDone,
          sample, roundTrip, target, export, worker, ui, logging>>

\* -------------------------------------------------------------------- text
SP == " "
COLON == ":"
NL == "\n"

RECURSIVE TextLen(_)
\* len(s), the text halved at each step
TextLen(t) ==
    IF t = <<>> THEN 0
    ELSE IF Len(t) = 1 THEN Len(t[1])
    ELSE LET h == Len(t) \div 2 IN
         TextLen(SubSeq(t, 1, h)) + TextLen(SubSeq(t, h + 1, Len(t)))

RECURSIVE Flat(_)
\* the atoms of a text run together into one word ("" for the empty text)
Flat(t) ==
    IF t = <<>> THEN ""
    ELSE IF Len(t) = 1 THEN t[1]
    ELSE LET h == Len(t) \div 2 IN
         Flat(SubSeq(t, 1, h)) \o Flat(SubSeq(t, h + 1, Len(t)))

Has(t, sep) == \E i \in 1..Len(t) : t[i] = sep
FirstIdx(t, sep) == CHOOSE i \in 1..Len(t) : t[i] = sep /\ \A j \in 1..(i-1) : t[j] # sep

RECURSIVE Split(_, _)
\* s.split(sep): always at least one part, empty parts kept
Split(t, sep) ==
    IF ~Has(t, sep) THEN <<t>>
    ELSE LET i == FirstIdx(t, sep) IN
         <<SubSeq(t, 1, i-1)>> \o Split(SubSeq(t, i+1, Len(t)), sep)

RECURSIVE Join(_, _)
\* sep.join(parts)
Join(parts, sep) ==
    IF parts = <<>> THEN <<>>
    ELSE IF Len(parts) = 1 THEN parts[1]
    ELSE parts[1] \o <<sep>> \o Join(Tail(parts), sep)

RECURSIVE Strip(_)
\* s.strip(): the blanks at both ends removed
Strip(t) ==
    IF t = <<>> THEN <<>>
    ELSE IF t[1] = SP THEN Strip(Tail(t))
    ELSE IF t[Len(t)] = SP THEN Strip(SubSeq(t, 1, Len(t)-1))
    ELSE t

\* ----------------------------------------------------------------- numbers
Digit(d) == CASE d = 0 -> "0" [] d = 1 -> "1" [] d = 2 -> "2" [] d = 3 -> "3"
              [] d = 4 -> "4" [] d = 5 -> "5" [] d = 6 -> "6" [] d = 7 -> "7"
              [] d = 8 -> "8" [] d = 9 -> "9"

RECURSIVE Dec(_)
\* the decimal digits of a natural number
Dec(n) == IF n < 10 THEN Digit(n) ELSE Dec(n \div 10) \o Digit(n % 10)

RECURSIVE ZeroFill(_, _)
\* a word filled with zeros on the left up to width w
ZeroFill(s, w) == IF Len(s) >= w THEN s ELSE ZeroFill("0" \o s, w)

Abs(n) == IF n < 0 THEN -n ELSE n

\* f"{n:0Wd}" of an integer: the sign counts in the width
PadInt(n, w) == IF n < 0 THEN "-" \o ZeroFill(Dec(-n), w - 1) ELSE ZeroFill(Dec(n), w)

\* int(value): truncation towards zero, value in hundredths
PyInt(h) == IF h < 0 THEN -((-h) \div 100) ELSE h \div 100

\* f"{value:.2f}"
Fmt2f(h) == (IF h < 0 THEN "-" ELSE "") \o Dec(Abs(h) \div 100) \o "." \o ZeroFill(Dec(Abs(h) % 100), 2)

\* FmtSigned8 one character wider
FmtSigned9(h) ==
    (IF h < 0 THEN "-" ELSE "+")
        \o ZeroFill(Dec(Abs(h) \div 100) \o "." \o ZeroFill(Dec(Abs(h) % 100), 2), 8)

\* f"{value:+08.2f}": the sign always, zeros up to 8 characters in all
FmtSigned8(h) ==
    (IF h < 0 THEN "-" ELSE "+")
        \o ZeroFill(Dec(Abs(h) \div 100) \o "." \o ZeroFill(Dec(Abs(h) % 100), 2), 7)

\* round(value) to the nearest integer, ties to even, as float formatting does
RoundHalfEven(h) ==
    LET a == Abs(h)
        q == a \div 100
        r == a % 100
        m == IF r > 50 \/ (r = 50 /\ q % 2 = 1) THEN q + 1 ELSE q
    IN  IF h < 0 THEN -m ELSE m

\* f"{value:+06.0f}"
FmtSigned6(h) ==
    LET m == RoundHalfEven(h) IN
    (IF h < 0 THEN "-" ELSE "+") \o ZeroFill(Dec(Abs(m)), 5)

\* a % b as Python computes it (the result has the sign of b); b # 0
PyMod(a, b) ==
    IF b > 0 THEN a % b
    ELSE LET m == a % (-b) IN IF m = 0 THEN 0 ELSE m + b

\* ----------------------------------------------------------------- records
\* the value None of meta_data and data_data
None == [record_type |-> "None", timestamp |-> <<>>, fields |-> <<>>, checksum |-> <<>>]

\* RobotDataRecord(), MetaDataRecord(), DataDataRecord() with their attributes set
MkRecord(type, ts, fields, chk) ==
    [record_type |-> type, timestamp |-> ts, fields |-> fields, checksum |-> chk]

\* a dict is the sequence of its <<key, value>> items in insertion order
HasKey(d, k) == \E i \in 1..Len(d) : d[i][1] = k
KeyIdx(d, k) == CHOOSE i \in 1..Len(d) : d[i][1] = k
Get(d, k, default) == IF HasKey(d, k) THEN d[KeyIdx(d, k)][2] ELSE default
\* Put leaving the value of an existing key as it is
PutOnce(d, k, v) == IF HasKey(d, k) THEN d ELSE Append(d, <<k, v>>)

\* d[k] = v: an existing key keeps its place, a new key goes last
Put(d, k, v) ==
    IF HasKey(d, k) THEN [d EXCEPT ![KeyIdx(d, k)] = <<k, v>>] ELSE Append(d, <<k, v>>)

\* calculate_checksum: the digest is taken free of collisions, so it is written
\* as one word that stands for the digested line
calculate_checksum(data) == <<"#" \o Flat(data)>>

RECURSIVE FieldParts(_)
FieldParts(d) ==
    IF d = <<>> THEN <<>>
    ELSE <<(IF d[1][1] = "" THEN <<COLON>> ELSE <<d[1][1], COLON>>) \o d[1][2]>>
            \o FieldParts(Tail(d))

\* _format_record_string
FormatRecordString(r) ==
    Join(<<<<r.record_type>>>> \o FieldParts(r.fields)
            \o (IF r.checksum # <<>>
                THEN <<<<"chkS", COLON>> \o r.checksum>> ELSE <<>>),
         SP)

\* format_timestamp at clock value t: (date, time), the date being fixed
DateStr == <<"2026", COLON, "11", COLON, "01">>
TimeStr(t) == <<"00", COLON, "00", COLON, "00", COLON, PadInt(t, 3)>>
Stamp(t) == DateStr \o <<SP>> \o TimeStr(t)

\* str.startswith over the names the inputs use
PrefixTable ==
    { <<"ir_sensor_1", "ir_sensor">>, <<"ir_sensor_2", "ir_sensor">>,
      <<"touch_sensor_1", "touch">>,
      <<"sensor_battery", "sensor_">>, <<"sensor_ir_1", "sensor_">>,
      <<"actuator_left_wheel", "actuator_">>,
      <<"decision_code", "decision_">>, <<"decision_reason", "decision_">> }
StartsWith(s, p) == s = p \/ <<s, p>> \in PrefixTable

\* ------------------------------------------------------------------- store
\* the store as one value: the five attributes of EBBCore and the history of
\* the slots
Store ==
    [max_records |-> max_records, records |-> records, meta_data |-> meta_data,
     data_data |-> data_data, current_record_index |-> current_record_index,
     ids |-> ids, arrived |-> arrived]

\* the fields create_meta_data_record starts from, robot_info a dict of texts
MetaFields(robot_info, t) ==
    << <<"recS", <<"010", COLON, "00000000">> >>,
       <<"ebbD", DateStr>>,
       <<"ebbT", TimeStr(t)>>,
       <<"botN", Get(robot_info, "name", <<"Unknown">>)>>,
       <<"botV", Get(robot_info, "version", <<"1.0">>)>>,
       <<"botS", Get(robot_info, "serial", <<"000001">>)>>,
       <<"botM", Get(robot_info, "manufacturer", <<"Default">>)>>,
       <<"opeR", Get(robot_info, "operator", <<"System">>)>>,
       <<"resP", Get(robot_info, "responsible", <<"Admin", SP, "+86", SP, "123456789">>)>>,
       <<"ebbN", <<"PyEBB", SP, "v1.0">> >> >>

\* the size descriptor f"{len(fields):03d}:{len(record_str):08d}"
RecS(fields, record_str) ==
    <<PadInt(Len(fields), 3), COLON, PadInt(TextLen(record_str), 8)>>

\* lines 103-106 and 191-194: record_str is formatted first, then recS is
\* replaced, and the checksum is taken of record_str
Seal(type, ts, fields) ==
    LET record_str == FormatRecordString(MkRecord(type, ts, fields, <<>>)) IN
    MkRecord(type, ts, Put(fields, "recS", RecS(fields, record_str)),
             calculate_checksum(record_str))

\* create_meta_data_record: the record it stores in meta_data
create_meta_data_record(robot_info, t) ==
    Seal("MD", Stamp(t), MetaFields(robot_info, t))

\* [r for r in self.records if r.record_type == "RD"]
RdRecords(recs) == SelectSeq(recs, LAMBDA r : r.record_type = "RD")

\* first_rd.timestamp.split(' ') unpacked into two names: fails unless two parts
SplitsInTwo(ts) == Len(Split(ts, SP)) = 2

\* create_data_data_record raises when a timestamp does not split in two
SummaryRaises(recs) ==
    LET rd == RdRecords(recs) IN
    rd # <<>> /\ (~SplitsInTwo(rd[1].timestamp) \/ ~SplitsInTwo(rd[Len(rd)].timestamp))

\* SummaryFields with the generation one behind the cursor
SummaryFieldsBehind(recs, idx, t) ==
    LET rd == RdRecords(recs)
        some == rd # <<>>
        first == IF some THEN Split(rd[1].timestamp, SP) ELSE <<>>
        last == IF some THEN Split(rd[Len(rd)].timestamp, SP) ELSE <<>>
    IN  << <<"recS", <<"010", COLON, "00000130">> >>,
           <<"ebbD", DateStr>>,
           <<"ebbT", TimeStr(t)>>,
           <<"ebbN", <<PadInt(Len(rd), 10)>> >>,
           <<"ebbX", <<PadInt(idx - 1, 17)>> >>,
           <<"ebD1", IF some THEN first[1] ELSE <<"0000", COLON, "00", COLON, "00">> >>,
           <<"ebT1", IF some THEN first[2] ELSE <<"0000", COLON, "00", COLON, "00">> >>,
           <<"ebDM", IF some THEN last[1] ELSE <<"00", COLON, "00", COLON, "00", COLON, "000">> >>,
           <<"ebTM", IF some THEN last[2] ELSE <<"00", COLON, "00", COLON, "00", COLON, "000">> >> >>

\* the fields of the DD record for the buffer recs and the cursor idx
SummaryFields(recs, idx, t) ==
    LET rd == RdRecords(recs)
        some == rd # <<>>
        first == IF some THEN Split(rd[1].timestamp, SP) ELSE <<>>
        last == IF some THEN Split(rd[Len(rd)].timestamp, SP) ELSE <<>>
        first_date == IF some THEN first[1] ELSE <<"0000", COLON, "00", COLON, "00">>
        first_time == IF some THEN first[2] ELSE <<"0000", COLON, "00", COLON, "00">>
        last_date == IF some THEN last[1] ELSE <<"00", COLON, "00", COLON, "00", COLON, "000">>
        last_time == IF some THEN last[2] ELSE <<"00", COLON, "00", COLON, "00", COLON, "000">>
    IN  << <<"recS", <<"010", COLON, "00000130">> >>,
           <<"ebbD", DateStr>>,
           <<"ebbT", TimeStr(t)>>,
           <<"ebbN", <<PadInt(Len(rd), 10)>> >>,
           <<"ebbX", <<PadInt(idx, 17)>> >>,
           <<"ebD1", first_date>>,
           <<"ebT1", first_time>>,
           <<"ebDM", last_date>>,
           <<"ebTM", last_time>> >>

\* create_data_data_record: the record it stores in data_data; recS is left as
\* written and the checksum is taken of the record as it is stored
create_data_data_record(recs, idx, t) ==
    LET fields == SummaryFields(recs, idx, t)
        record == MkRecord("DD", Stamp(t), fields, <<>>)
    IN  [record EXCEPT !.checksum = calculate_checksum(FormatRecordString(record))]

\* ------------------------------------------------------------- appendEvent
RECURSIVE SensorFields(_, _, _)
\* lines 161-172: the loop over enumerate(sensor_data.items(), 1), from item i on
SensorFields(fields, sensor_data, i) ==
    IF i > Len(sensor_data) THEN fields
    ELSE LET sensor_type == sensor_data[i][1]
             value == sensor_data[i][2]
             next ==
                IF sensor_type = "battery"
                THEN Put(fields, "batL", <<PadInt(PyInt(value[1]), 3)>>)
                ELSE IF StartsWith(sensor_type, "ir_sensor")
                THEN Put(fields, "irSe", <<PadInt(i, 2), COLON, Fmt2f(value[1])>>)
                ELSE IF StartsWith(sensor_type, "touch")
                THEN Put(fields, "tchS", <<PadInt(i, 2), COLON, PadInt(PyInt(value[1]), 3)>>)
                ELSE IF sensor_type = "gyro"
                THEN Put(fields, "gyrV", <<"01", COLON, FmtSigned6(value[1]), COLON,
                                           FmtSigned6(value[2]), COLON, FmtSigned6(value[3])>>)
                ELSE IF sensor_type = "accelerometer"
                THEN Put(fields, "accV", <<"01", COLON, FmtSigned6(value[1]), COLON,
                                           FmtSigned6(value[2]), COLON, FmtSigned6(value[3])>>)
                ELSE fields
         IN  SensorFields(next, sensor_data, i + 1)

RECURSIVE ActuatorFields(_, _, _)
\* lines 174-176: every actuator is written under the one key actV
ActuatorFields(fields, actuator_data, i) ==
    IF i > Len(actuator_data) THEN fields
    ELSE ActuatorFields(Put(fields, "actV", <<PadInt(i, 3), COLON, FmtSigned8(actuator_data[i][2][1])>>),
                        actuator_data, i + 1)

\* lines 178-182: decision_data is a dict of texts; an empty dict adds nothing
DecisionFields(fields, decision_data) ==
    IF decision_data = <<>> THEN fields
    ELSE Put(fields, "decC",
             Get(decision_data, "code", <<"0000">>) \o <<COLON>>
                \o Get(decision_data, "reason", <<>>))

\* lines 152-194: the record add_robot_data_record builds at clock value t
RobotRecord(inp, t) ==
    LET f0 == << <<"recS", <<"017", COLON, "00000000">> >>,
                 <<"ebbD", DateStr>>,
                 <<"ebbT", TimeStr(t)>>,
                 <<"botT", TimeStr(t)>> >>
        f1 == SensorFields(f0, inp.sensors, 1)
        f2 == ActuatorFields(f1, inp.actuators, 1)
        f3 == DecisionFields(f2, inp.decision)
        f4 == Put(f3, "wifi", <<"1", COLON, "85">>)
    IN  Seal("RD", Stamp(t), f4)

\* ----------------------------------------------------------- native import
RECURSIVE ParseFieldsReversed(_, _, _)
\* ParseFields putting each field in front of the ones read before it
ParseFieldsReversed(parts, fields, checksum) ==
    IF parts = <<>> THEN [fields |-> fields, checksum |-> checksum]
    ELSE LET part == parts[1] IN
         IF ~Has(part, COLON) THEN ParseFieldsReversed(Tail(parts), fields, checksum)
         ELSE LET i == FirstIdx(part, COLON)
                  key == Flat(SubSeq(part, 1, i - 1))
                  value == SubSeq(part, i + 1, Len(part))
              IN  IF key = "chkS" THEN ParseFieldsReversed(Tail(parts), fields, value)
                  ELSE ParseFieldsReversed(Tail(parts), <<<<key, value>>>> \o fields, checksum)

RECURSIVE ParseFields(_, _, _)
\* lines 291-297: the fields and the checksum of the parts after the first;
\* a part without a colon is dropped, split(':', 1) cuts at the first colon
ParseFields(parts, fields, checksum) ==
    IF parts = <<>> THEN [fields |-> fields, checksum |-> checksum]
    ELSE LET part == parts[1] IN
         IF ~Has(part, COLON) THEN ParseFields(Tail(parts), fields, checksum)
         ELSE LET i == FirstIdx(part, COLON)
                  key == Flat(SubSeq(part, 1, i - 1))
                  value == SubSeq(part, i + 1, Len(part))
              IN  IF key = "chkS" THEN ParseFields(Tail(parts), fields, value)
                  ELSE ParseFields(Tail(parts), Put(fields, key, value), checksum)

\* _parse_record_line: the record of a line, None for a line it rejects
ParseRecordLine(line) ==
    IF line = <<>> THEN None
    ELSE LET parts == Split(line, SP) IN
         IF Len(parts) < 2 THEN None
         ELSE IF parts[1] \notin {<<"MD">>, <<"DD">>, <<"RD">>} THEN None
         ELSE LET pf == ParseFields(Tail(parts), <<>>, <<>>)
                  ts == IF HasKey(pf.fields, "ebbD") /\ HasKey(pf.fields, "ebbT")
                        THEN Get(pf.fields, "ebbD", <<>>) \o <<SP>> \o Get(pf.fields, "ebbT", <<>>)
                        ELSE <<>>
              IN  MkRecord(parts[1][1], ts, pf.fields, pf.checksum)

RECURSIVE ParseLinesAbort(_)
\* ParseLines giving up at the first line that does not parse
ParseLinesAbort(lines) ==
    IF lines = <<>> THEN <<>>
    ELSE LET line == Strip(lines[1])
             record == IF line = <<>> THEN None ELSE ParseRecordLine(line)
         IN  IF line # <<>> /\ record = None THEN <<>>
             ELSE (IF record = None THEN <<>> ELSE <<record>>) \o ParseLinesAbort(Tail(lines))

RECURSIVE ParseLines(_)
\* lines 239-250: the records of the lines that are not blank and parse
ParseLines(lines) ==
    IF lines = <<>> THEN <<>>
    ELSE LET line == Strip(lines[1])
             record == IF line = <<>> THEN None ELSE ParseRecordLine(line)
         IN  (IF record = None THEN <<>> ELSE <<record>>) \o ParseLines(Tail(lines))

\* ------------------------------------------------------ CSV and JSON import
\* datetime.now() read again after dt more milliseconds
Read(c, dt) == IF c + dt > MaxClock THEN MaxClock ELSE c + dt

\* float(text) over the cells the inputs use, in hundredths; any other text
\* makes float() raise ValueError
FloatTable ==
    { <<<<"95.5">>, 9550>>, <<<<"0.23">>, 23>>, <<<<"-12.3">>, -1230>>, <<<<"7">>, 700>> }
FloatOk(text) == \E e \in FloatTable : e[1] = text
FloatOf(text) == (CHOOSE e \in FloatTable : e[1] = text)[2]

\* lines 353-359: a cell that float() rejects makes the row raise
RowRaises(row) ==
    \E i \in 1..Len(row) :
        /\ StartsWith(row[i][1], "sensor_") \/ StartsWith(row[i][1], "actuator_")
        /\ row[i][2] # <<>>
        /\ ~FloatOk(row[i][2])

CellValue(text) == IF text = <<>> THEN <<0>> ELSE <<FloatOf(text)>>

RECURSIVE RowItems(_, _)
\* the items of a row whose column name starts with prefix, numbers converted
RowItems(row, prefix) ==
    IF row = <<>> THEN <<>>
    ELSE (IF StartsWith(row[1][1], prefix)
          THEN << <<row[1][1],
                    IF prefix = "decision_" THEN row[1][2] ELSE CellValue(row[1][2])>> >>
          ELSE <<>>) \o RowItems(Tail(row), prefix)

\* lines 348-359: the three dicts of a row
RowInput(row) ==
    [sensors |-> RowItems(row, "sensor_"),
     actuators |-> RowItems(row, "actuator_"),
     decision |-> RowItems(row, "decision_")]

\* ------------------------------------------------------------------ inputs
\* what the callers hand to add_robot_data_record: the scenario of the
\* documentation
InScenario ==
    [sensors |-> << <<"battery", <<9550>> >>, <<"ir_sensor_1", <<23>> >> >>,
     actuators |-> << <<"left_wheel", <<-1230>> >> >>,
     decision |-> << <<"code", <<"0001">> >>, <<"reason", <<"Moving", SP, "forward">> >> >>]
EventInputs == {InScenario}

\* the dicts of up to three sensors and up to two actuators, in every order
SensorValues ==
    << <<"battery", <<9550>> >>, <<"ir_sensor_1", <<23>> >>, <<"ir_sensor_2", <<700>> >> >>
ActuatorValues == << <<"left_wheel", <<-1230>> >>, <<"right_wheel", <<700>> >> >>
Orders(items) ==
    {[i \in 1..Len(o) |-> items[o[i]]] :
        o \in {q \in UNION {[1..n -> 1..Len(items)] : n \in 0..Len(items)} :
                  \A i, j \in 1..Len(q) : q[i] = q[j] => i = j}}

\* robot_info: the values the window starts with
InfoWindow ==
    << <<"name", <<"TestRobot">> >>, <<"version", <<"1.0">> >>, <<"serial", <<"TR001">> >>,
       <<"manufacturer", <<"RobotCorp">> >>, <<"operator", <<"TestLab">> >>,
       <<"responsible", <<"Admin", SP, "+86", SP, "123456789">> >> >>
RobotInfos == {InfoWindow}

\* native files: lines as the store itself writes them, and lines it never wrote
MetaLine == FormatRecordString(create_meta_data_record(InfoWindow, 0))
RdLine(t) == FormatRecordString(RobotRecord(InScenario, t))
DdLine ==
    FormatRecordString(
        create_data_data_record(<<RobotRecord(InScenario, 1), RobotRecord(InScenario, 2)>>, 2, 2))
BadLine == <<"XX", SP, "recS", COLON, "001">>
NoDateLine == <<"RD", SP, "batL", COLON, "050">>

File(lines) == [readable |-> TRUE, lines |-> lines]
FileMissing == [readable |-> FALSE, lines |-> <<>>]
FileEmpty == File(<<>>)
FileMetaOnly == File(<<MetaLine>>)
FileGarbage == File(<<BadLine, <<"garbage">>, <<>> >>)
FileFull == File(<<MetaLine, DdLine, RdLine(1), BadLine, RdLine(2)>>)
FileOver == File([i \in 1..(MaxCap + 1) |-> RdLine(i)])
FileNoDate == File(<<NoDateLine>>)
NativeFiles ==
    <<FileMissing, FileEmpty, FileMetaOnly, FileGarbage, FileFull, FileOver, FileNoDate>>

\* files of n Event lines and one more line, put after the p-th of them: a
\* line of an unknown kind, a line of one token, and a line of kind RD with
\* no key:value token
KindOnlyLine == <<"RD", SP, "garbage">>
OddLines == <<BadLine, <<"garbage">>, KindOnlyLine>>
InsertAt(seq, p, x) == SubSeq(seq, 1, p) \o <<x>> \o SubSeq(seq, p + 1, Len(seq))
RECURSIVE SeqOf(_)
SeqOf(set) ==
    IF set = {} THEN <<>>
    ELSE LET x == CHOOSE y \in set : TRUE IN <<x>> \o SeqOf(set \ {x})
OddCases ==
    SeqOf({c \in (0..MaxCap) \X (0..MaxCap) \X (1..Len(OddLines)) : c[2] <= c[1]})
OddFiles ==
    [j \in 1..Len(OddCases) |->
        File(InsertAt([i \in 1..OddCases[j][1] |-> RdLine(i)], OddCases[j][2],
                      OddLines[OddCases[j][3]]))]

\* CSV files: the header of the documented example, a row with a cell that is
\* no number after a good row, and a row with decision columns only
CsvRow(battery, wheel) ==
    << <<"sensor_battery", battery>>, <<"actuator_left_wheel", wheel>>,
       <<"decision_code", <<"0001">> >>, <<"decision_reason", <<"Moving", SP, "forward">> >> >>
CsvGood == [readable |-> TRUE, rows |-> <<CsvRow(<<"95.5">>, <<"-12.3">>), CsvRow(<<>>, <<>>)>>]
CsvBadCell == [readable |-> TRUE, rows |-> <<CsvRow(<<"95.5">>, <<"-12.3">>), CsvRow(<<"abc">>, <<"7">>)>>]
CsvDecisionOnly == [readable |-> TRUE, rows |-> << << <<"decision_code", <<"0001">> >> >> >>]
CsvFiles == <<CsvGood, CsvBadCell, CsvDecisionOnly>>

\* JSON documents
Item(inp) == [wellTyped |-> TRUE, inp |-> inp]
BadItem == [wellTyped |-> FALSE, inp |-> InScenario]
JsonList == [shape |-> "list", items |-> <<Item(InScenario), Item(InScenario)>>]
JsonSingle == [shape |-> "single", items |-> <<Item(InScenario)>>]
JsonBadItem == [shape |-> "records", items |-> <<Item(InScenario), BadItem>>]
JsonMalformed == [shape |-> "malformed", items |-> <<>>]
JsonDocs == <<JsonList, JsonSingle, JsonBadItem, JsonMalformed>>

\* the capacities the settings entry takes: int() accepts any integer
CapacityEntries == (-1)..MaxCap

\* appendEvent calls with these dicts and the decision of the scenario
ManyInputs ==
    SeqOf({[sensors |-> sd, actuators |-> ad, decision |-> InScenario.decision] :
              sd \in Orders(SensorValues), ad \in Orders(ActuatorValues)})

RECURSIVE RowInputs(_)
RowInputs(rows) ==
    IF rows = <<>> THEN {}
    ELSE (IF RowRaises(rows[1]) THEN {} ELSE {RowInput(rows[1])}) \cup RowInputs(Tail(rows))

\* every input add_robot_data_record is called with
AllInputs ==
    EventInputs
        \cup {ManyInputs[k] : k \in 1..Len(ManyInputs)}
        \cup UNION {RowInputs(CsvFiles[k].rows) : k \in 1..Len(CsvFiles)}
        \cup UNION {{JsonDocs[k].items[i].inp : i \in 1..Len(JsonDocs[k].items)} : k \in 1..Len(JsonDocs)}

\* the records of the inputs, the metadata records and the records the parse
\* loop of import_records (lines 236-250) gets from each file, computed once
RobotRecordAt == [inp \in AllInputs |-> [t \in 0..MaxClock |-> RobotRecord(inp, t)]]
MetaRecordAt == [info \in RobotInfos |-> [t \in 0..MaxClock |-> create_meta_data_record(info, t)]]
ParsedFile == [k \in 1..Len(NativeFiles) |-> ParseLines(NativeFiles[k].lines)]
ParsedOddFile == [j \in 1..Len(OddFiles) |-> ParseLines(OddFiles[j].lines)]

\* the records whose lines are read back: a known kind, one field or more
\* under distinct keys (the empty key among them), values with and without
\* colons and the empty value, no blank anywhere, with and without a checksum
CodecKinds == {"MD", "DD", "RD"}
CodecKeys == {"batL", "ebbD", "ebbT", ""}
CodecValues == {<<"095">>, <<"01", COLON, "0.23">>, <<>>}
CodecChecksums == {<<>>, <<"1A2B">>, <<"1A", COLON, "2B">>}
DistinctKeys(d) == \A i, j \in 1..Len(d) : d[i][1] = d[j][1] => i = j
CodecFields ==
    {d \in UNION {[1..n -> CodecKeys \X CodecValues] : n \in 1..MaxFields} : DistinctKeys(d)}
Samples ==
    {MkRecord(kind, <<>>, fields, checksum) :
        kind \in CodecKinds, fields \in CodecFields, checksum \in CodecChecksums}

RECURSIVE FieldText(_)
\* the tokens " key:value" of the fields, in their order
FieldText(d) ==
    IF d = <<>> THEN <<>>
    ELSE <<SP>> \o (IF d[1][1] = "" THEN <<>> ELSE <<d[1][1]>>) \o <<COLON>> \o d[1][2]
            \o FieldText(Tail(d))

\* the line of a record as export_records writes it: the kind, the fields,
\* the checksum last
CanonicalLine(r) ==
    <<r.record_type>> \o FieldText(r.fields)
        \o (IF r.checksum # <<>> THEN <<SP, "chkS", COLON>> \o r.checksum ELSE <<>>)

\* -------------------------------------------------------------- operations
\* WriteIndex taken of the cursor after its increment
WriteIndexNext(idx, cap) == PyMod(idx + 1, cap)

\* line 198: the list index self.current_record_index % self.max_records
WriteIndex(idx, cap) == PyMod(idx, cap)

\* Slot with > for >=: the buffer is full one record later
SlotLate(recs, idx, cap) ==
    IF Len(recs) > cap
    THEN IF cap = 0 THEN 0
         ELSE LET k == WriteIndex(idx, cap) IN
              IF k >= 0 THEN (IF k < Len(recs) THEN k + 1 ELSE 0)
              ELSE (IF -k <= Len(recs) THEN Len(recs) + k + 1 ELSE 0)
    ELSE Len(recs) + 1

\* lines 196-200: the slot the new record goes to, 0 when the insertion raises
\* (ZeroDivisionError for a capacity of 0, IndexError for an index outside
\* the list), Len+1 for an append
Slot(recs, idx, cap) ==
    IF Len(recs) >= cap
    THEN IF cap = 0 THEN 0
         ELSE LET k == WriteIndex(idx, cap) IN
              IF k >= 0 THEN (IF k < Len(recs) THEN k + 1 ELSE 0)
              ELSE (IF -k <= Len(recs) THEN Len(recs) + k + 1 ELSE 0)
    ELSE Len(recs) + 1

\* SetSlot with the new element put in front instead of appended
SetSlotFront(seq, p, x) == IF p = Len(seq) + 1 THEN <<x>> \o seq ELSE [seq EXCEPT ![p] = x]

\* a list with position p (1-based) set, p = Len+1 appending
SetSlot(seq, p, x) == IF p = Len(seq) + 1 THEN Append(seq, x) ELSE [seq EXCEPT ![p] = x]

\* AddRobotDataRecord with the summary recomputed before the insertion
AddRobotDataRecordSummaryFirst(S, inp, t1, t2) ==
    LET record == RobotRecordAt[inp][t1]
        p == Slot(S.records, S.current_record_index, S.max_records)
    IN  IF p = 0 THEN [ok |-> FALSE, st |-> S]
        ELSE IF SummaryRaises(S.records) THEN [ok |-> FALSE, st |-> S]
        ELSE [ok |-> TRUE,
              st |-> [S EXCEPT !.records = SetSlot(S.records, p, record),
                               !.current_record_index = S.current_record_index + 1,
                               !.ids = SetSlot(S.ids, p, S.arrived + 1),
                               !.arrived = S.arrived + 1,
                               !.data_data = create_data_data_record(
                                                 S.records, S.current_record_index, t2)]]

\* add_robot_data_record on store S with the clock reading t1 at line 152 and
\* t2 in create_data_data_record: the store afterwards and whether the call
\* returned (ok) or raised
AddRobotDataRecord(S, inp, t1, t2) ==
    LET record == RobotRecordAt[inp][t1]
        p == Slot(S.records, S.current_record_index, S.max_records)
    IN  IF p = 0 THEN [ok |-> FALSE, st |-> S]
        ELSE LET recs == SetSlot(S.records, p, record)
                 idx == S.current_record_index + 1
                 S1 == [S EXCEPT !.records = recs,
                                 !.current_record_index = idx,
                                 !.ids = SetSlot(S.ids, p, S.arrived + 1),
                                 !.arrived = S.arrived + 1]
             IN  IF SummaryRaises(recs) THEN [ok |-> FALSE, st |-> S1]
                 ELSE [ok |-> TRUE,
                       st |-> [S1 EXCEPT !.data_data = create_data_data_record(recs, idx, t2)]]

OfType(recs, type) == SelectSeq(recs, LAMBDA r : r.record_type = type)

\* ValidateImportedRecords without the test for an RD record
ValidateAnyRecord(recs) == recs # <<>>

\* _validate_imported_records; the checksum comparison is commented out in the code
ValidateImportedRecords(recs) == recs # <<>> /\ OfType(recs, "RD") # <<>>

\* ImportRecords adding the imported events to the buffer
ImportRecordsExtend(S, file, imported_records) ==
    IF ~file.readable THEN [ok |-> FALSE, st |-> S]
    ELSE IF ~ValidateImportedRecords(imported_records) THEN [ok |-> FALSE, st |-> S]
    ELSE LET rd == S.records \o OfType(imported_records, "RD")
             md_records == OfType(imported_records, "MD")
             dd_records == OfType(imported_records, "DD")
         IN  [ok |-> TRUE,
              st |-> [S EXCEPT
                        !.records = rd,
                        !.current_record_index = Len(rd),
                        !.ids = [i \in 1..Len(rd) |-> i],
                        !.arrived = Len(rd),
                        !.meta_data = IF md_records # <<>> THEN md_records[1] ELSE @,
                        !.data_data = IF dd_records # <<>> THEN dd_records[1] ELSE @]]

\* import_records of a file, [readable, lines], imported_records being what
\* the parse loop got from its lines: the store afterwards and whether the
\* call returned True (ok) or raised
ImportRecords(S, file, imported_records) ==
    IF ~file.readable THEN [ok |-> FALSE, st |-> S]
    ELSE IF ~ValidateImportedRecords(imported_records) THEN [ok |-> FALSE, st |-> S]
    ELSE LET rd == OfType(imported_records, "RD")
             md_records == OfType(imported_records, "MD")
             dd_records == OfType(imported_records, "DD")
         IN  [ok |-> TRUE,
              st |-> [S EXCEPT
                        !.records = rd,
                        !.current_record_index = Len(rd),
                        !.ids = [i \in 1..Len(rd) |-> i],
                        !.arrived = Len(rd),
                        !.meta_data = IF md_records # <<>> THEN md_records[1] ELSE @,
                        !.data_data = IF dd_records # <<>> THEN dd_records[1] ELSE @]]

\* the element of a set of one
Only(set) == CHOOSE x \in set : TRUE

\* lines 361-363, 381: one add_robot_data_record call of an import, the clock
\* read twice
ImportedRecord(S, inp, c, dt) ==
    Only({[r EXCEPT !.clock = Read(Read(c, dt), dt)] :
          r \in {AddRobotDataRecord(S, inp, Read(c, dt), Read(Read(c, dt), dt))
                     @@ [clock |-> 0]}})

RECURSIVE ImportCsvRowsAll(_, _, _, _)
\* ImportCsvRows adding a record for every row
ImportCsvRowsAll(S, rows, c, dt) ==
    IF rows = <<>> THEN [ok |-> TRUE, st |-> S, clock |-> c]
    ELSE IF RowRaises(rows[1]) THEN [ok |-> FALSE, st |-> S, clock |-> c]
    ELSE Only({IF r.ok THEN ImportCsvRowsAll(r.st, Tail(rows), r.clock, dt) ELSE r :
               r \in {ImportedRecord(S, RowInput(rows[1]), c, dt)}})

RECURSIVE ImportCsvRowsSkipBad(_, _, _, _)
\* ImportCsvRows passing over a row with a cell that is no number
ImportCsvRowsSkipBad(S, rows, c, dt) ==
    IF rows = <<>> THEN [ok |-> TRUE, st |-> S, clock |-> c]
    ELSE IF RowRaises(rows[1]) THEN ImportCsvRowsSkipBad(S, Tail(rows), c, dt)
    ELSE Only({IF inp.sensors = <<>> /\ inp.actuators = <<>>
               THEN ImportCsvRowsSkipBad(S, Tail(rows), c, dt)
               ELSE Only({IF r.ok THEN ImportCsvRowsSkipBad(r.st, Tail(rows), r.clock, dt) ELSE r :
                          r \in {ImportedRecord(S, inp, c, dt)}}) :
               inp \in {RowInput(rows[1])}})

RECURSIVE ImportCsvRows(_, _, _, _)
RECURSIVE ImportJsonItems(_, _, _, _)

\* lines 346-363: the loop over the rows
ImportCsvRows(S, rows, c, dt) ==
    IF rows = <<>> THEN [ok |-> TRUE, st |-> S, clock |-> c]
    ELSE IF RowRaises(rows[1]) THEN [ok |-> FALSE, st |-> S, clock |-> c]
    ELSE Only({IF inp.sensors = <<>> /\ inp.actuators = <<>>
               THEN ImportCsvRows(S, Tail(rows), c, dt)
               ELSE Only({IF r.ok THEN ImportCsvRows(r.st, Tail(rows), r.clock, dt) ELSE r :
                          r \in {ImportedRecord(S, inp, c, dt)}}) :
               inp \in {RowInput(rows[1])}})

\* import_csv_data of a file, [readable, rows]
ImportCsvData(S, file, c, dt) ==
    IF ~file.readable THEN [ok |-> FALSE, st |-> S, clock |-> c]
    ELSE ImportCsvRows(S, file.rows, c, dt)

\* lines 376-381 and 386-391: the loop over the items; an item that is not an
\* object, or holds a value the formats reject, raises before the store changes
ImportJsonItems(S, items, c, dt) ==
    IF items = <<>> THEN [ok |-> TRUE, st |-> S, clock |-> c]
    ELSE IF ~items[1].wellTyped THEN [ok |-> FALSE, st |-> S, clock |-> c]
    ELSE Only({IF r.ok THEN ImportJsonItems(r.st, Tail(items), r.clock, dt) ELSE r :
               r \in {ImportedRecord(S, items[1].inp, c, dt)}})

\* import_json_data of a document, [shape, items]: shape "malformed" makes
\* json.load raise, "list" is a bare array, "records" an object with a records
\* array, "single" one event object (items holds it)
ImportJsonData(S, doc, c, dt) ==
    IF doc.shape = "malformed" THEN [ok |-> FALSE, st |-> S, clock |-> c]
    ELSE ImportJsonItems(S, doc.items, c, dt)

\* ----------------------------------------------------------------- actions
\* EBBCore.__init__(max_records)
InitStore ==
    /\ max_records \in 1..MaxCap
    /\ records = <<>>
    /\ meta_data = None
    /\ data_data = None
    /\ current_record_index = 0
    /\ clock = 0
    /\ ids = <<>>
    /\ arrived = 0
    /\ lastOp = "init"
    /\ lastInput = 0
    /\ onlyAppends = TRUE
    /\ appendsDone = 0

\* no export under way, the target file empty
NoExport == [pc |-> "idle", k |-> 0, buffer |-> <<>>, before |-> <<>>, calls |-> 0]

\* no auto_log_worker thread yet
\* the window as __init__ leaves it: auto_logging False (line 507), no thread
NoLogging == [auto_logging |-> FALSE, pc |-> [k \in 1..MaxThreads |-> "off"], manual |-> FALSE]

NoWorker == [pc |-> "off", record |-> None, full |-> FALSE, n |-> 0]

Init ==
    /\ InitStore
    /\ sample = None
    /\ roundTrip = <<>>
    /\ target = <<>>
    /\ export = NoExport
    /\ worker = NoWorker
    /\ ui = "idle"
    /\ logging = NoLogging

\* the store variables take the values of the store S
Becomes(S) ==
    /\ max_records' = S.max_records
    /\ records' = S.records
    /\ meta_data' = S.meta_data
    /\ data_data' = S.data_data
    /\ current_record_index' = S.current_record_index
    /\ ids' = S.ids
    /\ arrived' = S.arrived

\* setup_robot_info, save_robot_info: create_meta_data_record(robot_info)
SetIdentity ==
    \E robot_info \in RobotInfos, dt \in 0..1 :
        /\ meta_data' = MetaRecordAt[robot_info][Read(clock, dt)]
        /\ clock' = Read(clock, dt)
        /\ lastOp' = "setIdentity"
        /\ lastInput' = 0
        /\ onlyAppends' = FALSE
        /\ appendsDone' = 0
        /\ UNCHANGED <<max_records, records, data_data, current_record_index, ids, arrived>>
        /\ UNCHANGED aside

\* manual_log, auto_log_worker: log_current_data calls add_robot_data_record
AppendEvent ==
    \E inp \in EventInputs, dt \in 0..1 :
        \E r \in {AddRobotDataRecord(Store, inp, Read(clock, dt), Read(Read(clock, dt), dt))} :
            /\ current_record_index < MaxIdx
            /\ Becomes(r.st)
            /\ clock' = Read(Read(clock, dt), dt)
            /\ lastOp' = IF r.ok THEN "append" ELSE "appendRaised"
            /\ lastInput' = 0
            /\ onlyAppends' = onlyAppends
            /\ appendsDone' = IF onlyAppends /\ r.ok THEN appendsDone + 1 ELSE appendsDone
            /\ UNCHANGED aside

\* Clear dropping the summary with the buffer
ClearAll ==
    /\ records' = <<>>
    /\ current_record_index' = 0
    /\ data_data' = None
    /\ ids' = <<>>
    /\ arrived' = 0
    /\ lastOp' = "clear"
    /\ lastInput' = 0
    /\ onlyAppends' = FALSE
    /\ appendsDone' = 0
    /\ UNCHANGED <<max_records, meta_data, clock>>
    /\ UNCHANGED aside

\* Clear leaving the cursor where it is
ClearKeepCursor ==
    /\ records' = <<>>
    /\ ids' = <<>>
    /\ arrived' = 0
    /\ lastOp' = "clear"
    /\ lastInput' = 0
    /\ onlyAppends' = FALSE
    /\ appendsDone' = 0
    /\ UNCHANGED <<max_records, meta_data, data_data, current_record_index, clock>>
    /\ UNCHANGED aside

\* Clear recomputing the summary of the emptied buffer
ClearAndRecompute ==
    /\ records' = <<>>
    /\ current_record_index' = 0
    /\ data_data' = create_data_data_record(<<>>, 0, clock)
    /\ ids' = <<>>
    /\ arrived' = 0
    /\ lastOp' = "clear"
    /\ lastInput' = 0
    /\ onlyAppends' = FALSE
    /\ appendsDone' = 0
    /\ UNCHANGED <<max_records, meta_data, clock>>
    /\ UNCHANGED aside

\* clear_records, the question answered yes
Clear ==
    /\ records' = <<>>
    /\ current_record_index' = 0
    /\ ids' = <<>>
    /\ arrived' = 0
    /\ lastOp' = "clear"
    /\ lastInput' = 0
    /\ onlyAppends' = FALSE
    /\ appendsDone' = 0
    /\ UNCHANGED <<max_records, meta_data, data_data, clock>>
    /\ UNCHANGED aside

\* apply_ebb_settings with an entry int() accepts
ApplySettings ==
    \E n \in CapacityEntries :
        /\ max_records' = n
        /\ lastOp' = "settings"
        /\ lastInput' = 0
        /\ onlyAppends' = FALSE
        /\ appendsDone' = 0
        /\ UNCHANGED <<records, meta_data, data_data, current_record_index, ids, arrived, clock>>
        /\ UNCHANGED aside

\* EBBGUIApplication.import_records on an .ebb file: EBBCore.import_records
ImportOf(file, imported_records, k) ==
    \E r \in {ImportRecords(Store, file, imported_records)} :
        /\ Becomes(r.st)
        /\ lastOp' = IF r.ok THEN "import" ELSE "importFailed"
        /\ lastInput' = IF r.ok THEN k ELSE 0
        /\ onlyAppends' = FALSE
        /\ appendsDone' = 0
        /\ UNCHANGED clock
        /\ UNCHANGED aside

ImportNativeOf(k) == ImportOf(NativeFiles[k], ParsedFile[k], k)

ImportNative == \E k \in 1..Len(NativeFiles) : ImportNativeOf(k)

\* the same on a file with one odd line; lastInput counts on from NativeFiles
ImportOddOf(j) == ImportOf(OddFiles[j], ParsedOddFile[j], Len(NativeFiles) + j)

ImportOdd == \E j \in 1..Len(OddFiles) : ImportOddOf(j)

\* import_csv_dialog: import_csv_data
ImportCsvOf(k) ==
    \E dt \in 0..1 :
        \E r \in {ImportCsvData(Store, CsvFiles[k], clock, dt)} :
        /\ current_record_index + Len(CsvFiles[k].rows) <= MaxIdx
        /\ Becomes(r.st)
        /\ clock' = r.clock
        /\ lastOp' = IF r.ok THEN "csv" ELSE "csvFailed"
        /\ lastInput' = IF r.ok THEN k ELSE 0
        /\ onlyAppends' = FALSE
        /\ appendsDone' = 0
        /\ UNCHANGED aside

ImportCsv == \E k \in 1..Len(CsvFiles) : ImportCsvOf(k)

\* import_json_dialog: import_json_data
ImportJson ==
    \E k \in 1..Len(JsonDocs), dt \in 0..1 :
        \E r \in {ImportJsonData(Store, JsonDocs[k], clock, dt)} :
        /\ current_record_index + Len(JsonDocs[k].items) <= MaxIdx
        /\ Becomes(r.st)
        /\ clock' = r.clock
        /\ lastOp' = IF r.ok THEN "json" ELSE "jsonFailed"
        /\ lastInput' = IF r.ok THEN k ELSE 0
        /\ onlyAppends' = FALSE
        /\ appendsDone' = 0
        /\ UNCHANGED aside

\* the operations on the buffer, the identity and the capacity
Next ==
    \/ SetIdentity
    \/ AppendEvent
    \/ Clear
    \/ ApplySettings
    \/ ImportNative

Spec == Init /\ [][Next]_vars

\* ItemAt writing the Summary before the Meta record
ItemAtSummaryFirst(S, k) ==
    IF k = 1 THEN S.data_data
    ELSE IF k = 2 THEN S.meta_data
    ELSE IF k - 2 <= Len(S.records) THEN S.records[k - 2]
    ELSE None

\* lines 222-231: the k-th record export_records comes to, None when there is
\* none: meta_data, data_data, then the list in the order of its slots
ItemAt(S, k) ==
    IF k = 1 THEN S.meta_data
    ELSE IF k = 2 THEN S.data_data
    ELSE IF k - 2 <= Len(S.records) THEN S.records[k - 2]
    ELSE None

\* line 220: open(filename, 'w') raises for a file that cannot be written, and
\* leaves the file empty otherwise
ExportOpen ==
    /\ export.pc = "idle"
    /\ export.calls < MaxExports
    /\ \E writable \in BOOLEAN :
          IF writable
          THEN /\ target' = <<>>
               /\ export' = [pc |-> "open", k |-> 1, buffer |-> <<>>, before |-> target,
                             calls |-> export.calls + 1]
               /\ lastOp' = "exporting"
          ELSE /\ export' = [export EXCEPT !.before = target, !.calls = @ + 1]
               /\ lastOp' = "exportFailed"
               /\ UNCHANGED target
    /\ UNCHANGED <<max_records, records, meta_data, data_data, current_record_index,
                   clock, ids, arrived, lastInput, onlyAppends, appendsDone>>
    /\ UNCHANGED <<sample, roundTrip, worker, ui, logging>>

\* lines 222-231: the next f.write, the text going to the buffer of f
ExportWrite ==
    /\ export.pc = "open"
    /\ export.k <= 2 + Len(records)
    /\ \E record \in {ItemAt(Store, export.k)} :
          export' = [export EXCEPT
                        !.k = @ + 1,
                        !.buffer = IF record = None THEN @
                                   ELSE @ \o FormatRecordString(record) \o <<NL>>]
    /\ UNCHANGED <<storeVars, sample, roundTrip, target, worker, ui, logging>>

\* f writes its buffer to the file when the buffer is full; the sizes are not
\* modelled, so it may do so after any write
ExportFlush ==
    /\ export.pc = "open"
    /\ export.buffer # <<>>
    /\ target' = target \o export.buffer
    /\ export' = [export EXCEPT !.buffer = <<>>]
    /\ UNCHANGED <<storeVars, sample, roundTrip, worker, ui, logging>>

\* a write to the file raises OSError (the disk is full): the with statement
\* closes f, the buffer is lost, and the exception reaches the handler of
\* EBBGUIApplication.export_records
ExportFail ==
    /\ export.pc = "open"
    /\ export.buffer # <<>>
    /\ export' = [export EXCEPT !.pc = "idle", !.buffer = <<>>]
    /\ lastOp' = "exportFailed"
    /\ UNCHANGED <<max_records, records, meta_data, data_data, current_record_index,
                   clock, ids, arrived, lastInput, onlyAppends, appendsDone>>
    /\ UNCHANGED <<sample, roundTrip, target, worker, ui, logging>>

\* the end of the with statement: f is closed, its buffer written
ExportClose ==
    /\ export.pc = "open"
    /\ export.k > 2 + Len(records)
    /\ target' = target \o export.buffer
    /\ export' = [export EXCEPT !.pc = "idle", !.buffer = <<>>]
    /\ lastOp' = "export"
    /\ UNCHANGED <<max_records, records, meta_data, data_data, current_record_index,
                   clock, ids, arrived, lastInput, onlyAppends, appendsDone>>
    /\ UNCHANGED <<sample, roundTrip, worker, ui, logging>>

\* the window's thread is in no export, and there are exports to come
Idle == export.pc = "idle" /\ export.calls < MaxExports

\* a new store; the file the user names holds nothing or an older export
OldFile == NoDateLine \o <<NL>>
InitExport ==
    /\ InitStore
    /\ sample = None
    /\ roundTrip = <<>>
    /\ target \in {<<>>, OldFile}
    /\ export = [NoExport EXCEPT !.before = target]
    /\ worker = NoWorker
    /\ ui = "idle"
    /\ logging = NoLogging

\* the operations that fill the store, one at a time, and the steps of an
\* export
NextExport ==
    \/ Idle /\ SetIdentity
    \/ Idle /\ AppendEvent
    \/ ExportOpen
    \/ ExportWrite
    \/ ExportFlush
    \/ ExportFail
    \/ ExportClose

SpecExport == InitExport /\ [][NextExport]_vars

\* start_auto_logging: the thread of auto_log_worker is started
StartAutoLogging ==
    /\ worker.pc = "off"
    /\ worker' = [worker EXCEPT !.pc = "loop"]
    /\ UNCHANGED <<storeVars, sample, roundTrip, target, export, ui, logging>>

\* the worker, lines 786-194: log_current_data reads the simulator, and
\* add_robot_data_record reads the clock and builds the record
WorkerBuild ==
    /\ worker.pc = "loop"
    /\ current_record_index < MaxIdx
    /\ \E inp \in EventInputs, dt \in 0..1 :
          /\ worker' = [worker EXCEPT !.pc = "built",
                                      !.record = RobotRecordAt[inp][Read(clock, dt)]]
          /\ clock' = Read(clock, dt)
    /\ onlyAppends' = FALSE
    /\ appendsDone' = 0
    /\ UNCHANGED <<max_records, records, meta_data, data_data, current_record_index,
                   ids, arrived, lastOp, lastInput>>
    /\ UNCHANGED <<sample, roundTrip, target, export, ui, logging>>

\* the worker, line 197: the test len(self.records) >= self.max_records
WorkerTest ==
    /\ worker.pc = "built"
    /\ worker' = [worker EXCEPT !.pc = "tested", !.full = Len(records) >= max_records]
    /\ UNCHANGED <<storeVars, sample, roundTrip, target, export, ui, logging>>

\* the worker, lines 198 and 200: the record goes to the slot of the cursor
\* as it is now, or to the end of the list; an index outside the list raises
\* IndexError, which auto_log_worker catches at line 776
WorkerStore ==
    /\ worker.pc = "tested"
    /\ \E p \in {IF worker.full
                  THEN (IF WriteIndex(current_record_index, max_records) < Len(records)
                        THEN WriteIndex(current_record_index, max_records) + 1 ELSE 0)
                  ELSE Len(records) + 1} :
          IF p = 0
          THEN /\ worker' = [NoWorker EXCEPT !.pc = "loop"]
               /\ lastOp' = "appendRaised"
               /\ UNCHANGED <<records, ids, arrived>>
          ELSE /\ worker' = [worker EXCEPT !.pc = "stored"]
               /\ records' = SetSlot(records, p, worker.record)
               /\ ids' = SetSlot(ids, p, arrived + 1)
               /\ arrived' = arrived + 1
               /\ UNCHANGED lastOp
    /\ UNCHANGED <<max_records, meta_data, data_data, current_record_index, clock,
                   lastInput, onlyAppends, appendsDone>>
    /\ UNCHANGED <<sample, roundTrip, target, export, ui, logging>>

\* the worker, line 202: self.current_record_index is read ...
WorkerRead ==
    /\ worker.pc = "stored"
    /\ worker' = [worker EXCEPT !.pc = "read", !.n = current_record_index]
    /\ UNCHANGED <<storeVars, sample, roundTrip, target, export, ui, logging>>

\* ... and written, one more than it was read
WorkerWrite ==
    /\ worker.pc = "read"
    /\ worker' = [worker EXCEPT !.pc = "counted"]
    /\ current_record_index' = worker.n + 1
    /\ UNCHANGED <<max_records, records, meta_data, data_data, clock, ids, arrived,
                   lastOp, lastInput, onlyAppends, appendsDone>>
    /\ UNCHANGED <<sample, roundTrip, target, export, ui, logging>>

\* the worker, line 205: create_data_data_record of the store as it is now;
\* then the call returns and the worker sleeps
WorkerSummary ==
    /\ worker.pc = "counted"
    /\ \E dt \in 0..1 :
          /\ clock' = Read(clock, dt)
          /\ IF SummaryRaises(records)
             THEN /\ lastOp' = "appendRaised"
                  /\ UNCHANGED data_data
             ELSE /\ lastOp' = "append"
                  /\ data_data' = create_data_data_record(records, current_record_index,
                                                          Read(clock, dt))
    /\ worker' = [NoWorker EXCEPT !.pc = "loop"]
    /\ UNCHANGED <<max_records, records, meta_data, current_record_index, ids, arrived,
                   lastInput, onlyAppends, appendsDone>>
    /\ UNCHANGED <<sample, roundTrip, target, export, ui, logging>>

\* clear_records, line 886: self.ebb.records.clear()
ClearList ==
    /\ ui = "idle"
    /\ ui' = "clearing"
    /\ records' = <<>>
    /\ ids' = <<>>
    /\ arrived' = 0
    /\ onlyAppends' = FALSE
    /\ appendsDone' = 0
    /\ UNCHANGED <<max_records, meta_data, data_data, current_record_index, clock,
                   lastOp, lastInput>>
    /\ UNCHANGED <<sample, roundTrip, target, export, worker, logging>>

\* clear_records, line 887: self.ebb.current_record_index = 0
ClearCursor ==
    /\ ui = "clearing"
    /\ ui' = "idle"
    /\ current_record_index' = 0
    /\ lastOp' = "clear"
    /\ lastInput' = 0
    /\ UNCHANGED <<max_records, records, meta_data, data_data, clock, ids, arrived,
                   onlyAppends, appendsDone>>
    /\ UNCHANGED <<sample, roundTrip, target, export, worker, logging>>

\* the worker's thread beside the window's thread: the steps of the worker's
\* add_robot_data_record, the steps of clear_records, and manual_log from
\* the window
NextThreads ==
    \/ StartAutoLogging
    \/ WorkerBuild
    \/ WorkerTest
    \/ WorkerStore
    \/ WorkerRead
    \/ WorkerWrite
    \/ WorkerSummary
    \/ ClearList
    \/ ClearCursor
    \/ ui = "idle" /\ AppendEvent

SpecThreads == Init /\ [][NextThreads]_vars

\* ------------------------------------------ starting and stopping the worker
\* start_auto_logging, lines 755-759, on the window's thread: when the flag
\* is off it is set and a new thread is started at the head of
\* auto_log_worker; when it is on the call does nothing
start_auto_logging ==
    /\ ui = "idle" /\ ~logging.manual
    /\ ~logging.auto_logging
    /\ \E k \in 1..MaxThreads :
          /\ logging.pc[k] = "off"
          /\ \A j \in 1..(k - 1) : logging.pc[j] # "off"
          /\ logging' = [logging EXCEPT !.auto_logging = TRUE, !.pc[k] = "loop"]
    /\ UNCHANGED <<storeVars, sample, roundTrip, target, export, worker, ui>>

\* stop_auto_logging, line 764, on the window's thread: the flag is cleared,
\* no thread is joined
stop_auto_logging ==
    /\ ui = "idle" /\ ~logging.manual
    /\ logging.auto_logging
    /\ logging' = [logging EXCEPT !.auto_logging = FALSE]
    /\ UNCHANGED <<storeVars, sample, roundTrip, target, export, worker, ui>>

\* log_current_data, lines 786-790, on whichever thread calls it: the
\* simulator is read and add_robot_data_record is given what it says
LogCurrentData ==
    \E inp \in EventInputs, dt \in 0..1 :
        \E r \in {AddRobotDataRecord(Store, inp, Read(clock, dt), Read(Read(clock, dt), dt))} :
            /\ current_record_index < MaxIdx
            /\ Becomes(r.st)
            /\ clock' = Read(Read(clock, dt), dt)
            /\ lastOp' = IF r.ok THEN "append" ELSE "appendRaised"
            /\ lastInput' = 0
            /\ onlyAppends' = onlyAppends
            /\ appendsDone' = IF onlyAppends /\ r.ok THEN appendsDone + 1 ELSE appendsDone
            /\ UNCHANGED <<sample, roundTrip, target, export, worker, ui>>

\* auto_log_worker, line 769: the test of the flag; the thread ends when it
\* is off. Line 771: an interval that is no number raises ValueError and
\* the thread sleeps (line 775) without having logged
WorkerLoop(k) ==
    /\ logging.pc[k] = "loop"
    /\ \E interval_ok \in BOOLEAN :
          logging' = [logging EXCEPT !.pc[k] = IF ~logging.auto_logging THEN "off"
                                               ELSE IF interval_ok THEN "log"
                                               ELSE "sleep"]
    /\ UNCHANGED <<storeVars, sample, roundTrip, target, export, worker, ui>>

\* auto_log_worker, lines 772-773 and 776-778: log_current_data runs to its
\* end, returning or raising, and the thread goes to sleep
WorkerLog(k) ==
    /\ logging.pc[k] = "log"
    /\ LogCurrentData
    /\ logging' = [logging EXCEPT !.pc[k] = "sleep"]

\* auto_log_worker: time.sleep returns and the loop goes back to its test
WorkerWake(k) ==
    /\ logging.pc[k] = "sleep"
    /\ logging' = [logging EXCEPT !.pc[k] = "loop"]
    /\ UNCHANGED <<storeVars, sample, roundTrip, target, export, worker, ui>>

auto_log_worker ==
    \E k \in 1..MaxThreads :
        \/ WorkerLoop(k)
        \/ WorkerLog(k)
        \/ WorkerWake(k)

\* manual_log, lines 780-782, on the window's thread: the call of
\* log_current_data is entered ...
ManualLogCall ==
    /\ ui = "idle" /\ ~logging.manual
    /\ logging' = [logging EXCEPT !.manual = TRUE]
    /\ UNCHANGED <<storeVars, sample, roundTrip, target, export, worker, ui>>

\* ... and runs to its end
ManualLogReturn ==
    /\ logging.manual
    /\ LogCurrentData
    /\ logging' = [logging EXCEPT !.manual = FALSE]

manual_log ==
    \/ ManualLogCall
    \/ ManualLogReturn

\* the window starting, stopping and logging by hand beside the threads of
\* auto_log_worker
NextLogging ==
    \/ start_auto_logging
    \/ stop_auto_logging
    \/ auto_log_worker
    \/ manual_log

SpecLogging == Init /\ [][NextLogging]_vars

\* EBBCore(max_records): a store as the constructor leaves it
NewStore(cap) ==
    [max_records |-> cap, records |-> <<>>, meta_data |-> None, data_data |-> None,
     current_record_index |-> 0, ids |-> <<>>, arrived |-> 0]

\* a new store of the same capacity reads the file an export has just
\* written: import_records on the lines of target; the store variables are
\* those of the new store from here on
ImportExported ==
    /\ export.pc = "idle"
    /\ lastOp = "export"
    /\ \E file \in {File(Split(target, NL))} :
          \E r \in {ImportRecords(NewStore(max_records), file, ParseLines(file.lines))} :
              /\ Becomes(r.st)
              /\ lastOp' = IF r.ok THEN "import" ELSE "importFailed"
    /\ lastInput' = 0
    /\ onlyAppends' = FALSE
    /\ appendsDone' = 0
    /\ UNCHANGED clock
    /\ UNCHANGED aside

\* the exports, each read back by a new store
NextRoundTrip ==
    \/ NextExport
    \/ ImportExported

SpecRoundTrip == InitExport /\ [][NextRoundTrip]_vars

\* the same with the CSV and JSON imports
NextAll ==
    \/ Next
    \/ ImportCsv
    \/ ImportJson

SpecAll == Init /\ [][NextAll]_vars

\* appends, clears and native imports of the files with one odd line
NextImport ==
    \/ AppendEvent
    \/ Clear
    \/ ImportOdd

SpecImport == Init /\ [][NextImport]_vars

\* appends, clears, capacity changes and CSV imports
NextCsv ==
    \/ AppendEvent
    \/ Clear
    \/ ApplySettings
    \/ ImportCsv

SpecCsv == Init /\ [][NextCsv]_vars

\* add_robot_data_record with the k-th of ManyInputs
AppendOf(k) ==
    \E dt \in 0..1 :
        \E r \in {AddRobotDataRecord(Store, ManyInputs[k], Read(clock, dt),
                                     Read(Read(clock, dt), dt))} :
            /\ current_record_index < MaxIdx
            /\ Becomes(r.st)
            /\ clock' = Read(Read(clock, dt), dt)
            /\ lastOp' = IF r.ok THEN "append" ELSE "appendRaised"
            /\ lastInput' = k
            /\ onlyAppends' = FALSE
            /\ appendsDone' = 0
            /\ UNCHANGED aside

AppendMany == \E k \in 1..Len(ManyInputs) : AppendOf(k)

\* appendEvent calls on an empty buffer, with any of the inputs
NextRecord ==
    \/ records = <<>> /\ AppendMany
    \/ Clear

SpecRecord == Init /\ [][NextRecord]_vars

\* the operations that set the cursor
NextCursor ==
    \/ AppendEvent
    \/ Clear
    \/ ImportNative
    \/ ImportCsv
    \/ ImportJson

SpecCursor == Init /\ [][NextCursor]_vars

\* a new store and the line of some record
InitCodec ==
    /\ InitStore
    /\ sample \in Samples
    /\ roundTrip = <<>>
    /\ target = <<>>
    /\ export = NoExport
    /\ worker = NoWorker
    /\ ui = "idle"
    /\ logging = NoLogging

\* _parse_record_line on the line, then _format_record_string on its result
RoundTrip ==
    /\ roundTrip = <<>>
    /\ \E line \in {CanonicalLine(sample)} :
           \E record \in {ParseRecordLine(line)} :
               roundTrip' = [line |-> line, record |-> record,
                             again |-> IF record = None THEN <<>>
                                       ELSE FormatRecordString(record)]
    /\ UNCHANGED <<storeVars, sample, target, export, worker, ui, logging>>

NextCodec == RoundTrip

SpecCodec == InitCodec /\ [][NextCodec]_vars

\* ------------------------------------------------------------- properties
\* the count field and the generation field of the Summary, as the buffer
\* and the cursor have them now
CountText == [n \in 0..(MaxIdx + MaxCap + 1) |-> <<PadInt(n, 10)>>]
GenerationText == [n \in 0..(MaxIdx + MaxCap + 1) |-> <<PadInt(n, 17)>>]
SummaryMatchesBuffer ==
    /\ data_data # None
    /\ Get(data_data.fields, "ebbN", <<>>) = CountText[Len(records)]
    /\ Get(data_data.fields, "ebbX", <<>>) = GenerationText[current_record_index]

\* C1: right after an appendEvent call has returned, whatever came before it,
\* the Summary's count field ebbN is the number of events in the buffer and
\* its generation field ebbX is the cursor.
C1_SummaryAfterAppend == lastOp = "append" => SummaryMatchesBuffer

\* an appendEvent has returned on a buffer that had wrapped or been imported
C1_Witness ==
    /\ lastOp = "append"
    /\ meta_data # None
    /\ Len(records) >= 1
    /\ current_record_index > Len(records)

\* C2: in every reachable state the number of events in the buffer is between
\* 0 and the capacity max_records.
C2_BufferWithinCapacity == 0 <= Len(records) /\ Len(records) <= max_records

\* C3: on a new store of capacity C, after N <= C appendEvent calls and
\* nothing else, the buffer holds the N events in the order of their
\* arrival and the cursor is N.
C3_AppendsWithinCapacity ==
    (onlyAppends /\ appendsDone <= max_records) =>
        /\ Len(records) = appendsDone
        /\ ids = [i \in 1..appendsDone |-> i]
        /\ current_record_index = appendsDone

\* a new store of capacity 2 after two appends
C3_Witness == onlyAppends /\ max_records = 2 /\ appendsDone = 2 /\ Len(records) = 2

\* C4: on a new store of capacity C, after N > C appendEvent calls and
\* nothing else, the buffer holds C events, slot (N-1) mod C holds the
\* event appended last, and the buffer holds exactly the last C events.
C4_AppendsBeyondCapacity ==
    (onlyAppends /\ appendsDone > max_records) =>
        /\ Len(records) = max_records
        /\ Len(ids) = max_records
        /\ ids[((appendsDone - 1) % max_records) + 1] = appendsDone
        /\ {ids[i] : i \in 1..Len(ids)} = (appendsDone - max_records + 1)..appendsDone

\* a new store of capacity 2 after three appends
C4_Witness == onlyAppends /\ max_records = 2 /\ appendsDone = 3 /\ Len(records) = 2

\* C5: once a new store of capacity C has wrapped, the slots read cyclically
\* from index cursor mod C give the retained events from oldest to newest;
\* with C = 2 and three appends A, B, C the slots hold C, B.
C5_CyclicOrder ==
    (onlyAppends /\ appendsDone > max_records) =>
        /\ Len(ids) = max_records
        /\ \A k \in 0..(max_records - 1) :
              ids[((current_record_index + k) % max_records) + 1]
                  = appendsDone - max_records + 1 + k
        /\ (max_records = 2 /\ appendsDone = 3) => ids = <<3, 2>>

\* capacity 2, appends A, B, C: the slots hold C, B and the cursor is 3
C5_Witness ==
    onlyAppends /\ max_records = 2 /\ appendsDone = 3 /\ ids = <<3, 2>>
        /\ current_record_index = 3

\* the slot of the record that entered the buffer first
IsOldest(p) == p \in 1..Len(ids) /\ \A q \in 1..Len(ids) : ids[p] <= ids[q]

\* C6: whenever the buffer holds at least max_records events, however it got
\* there, an appendEvent that returns replaces the oldest event of the
\* buffer and does not grow the buffer.
C6_OverwritesOldest ==
    [][(Len(records) >= max_records /\ lastOp' = "append") =>
          /\ Len(records') = Len(records)
          /\ \E p \in 1..Len(records) :
                /\ IsOldest(p)
                /\ ids' = [ids EXCEPT ![p] = arrived']
                /\ \A q \in (1..Len(records)) \ {p} : records'[q] = records[q]]_vars

\* the checksum of a record is the digest of its encoding without the checksum
ChecksumCurrent(r) ==
    r.checksum = calculate_checksum(FormatRecordString([r EXCEPT !.checksum = <<>>]))

\* C7: every record setIdentity, appendEvent or the summary recomputation
\* stores carries the checksum of its fields as stored, recS included.
C7_ChecksumOfStoredFields ==
    /\ lastOp = "setIdentity" => ChecksumCurrent(meta_data)
    /\ lastOp = "append" =>
          /\ ChecksumCurrent(data_data)
          /\ \A i \in 1..Len(records) : ids[i] = arrived => ChecksumCurrent(records[i])

\* C8: in every reachable state, the one right after construction included,
\* a Meta record and a Summary record exist.
C8_MetaAndSummaryExist == meta_data # None /\ data_data # None

\* C8 as amended: a store has one place for the Meta record and one for the
\* Summary record, both empty after construction; a Meta record exists after
\* every setIdentity, a Summary record after every appendEvent that returns,
\* and once either exists no operation removes it.
C8_OnceStoredNeverRemoved ==
    /\ meta_data = None /\ data_data = None
    /\ [][/\ meta_data # None => meta_data' # None
          /\ data_data # None => data_data' # None
          /\ lastOp' = "setIdentity" => meta_data'.record_type = "MD"
          /\ lastOp' = "append" => data_data'.record_type = "DD"]_vars

\* both records are there after a clear
C8_Witness == lastOp = "clear" /\ meta_data # None /\ data_data # None

\* C9: whenever a Summary exists, its count field is the number of buffered
\* events and its generation field is the cursor.
C9_SummaryAlwaysConsistent == data_data # None => SummaryMatchesBuffer

\* C9 as amended: every appendEvent that returns brings the Summary up to
\* date, and setIdentity, a capacity change and a failed native import keep
\* it up to date if it was; clear and a successful native import do not
\* recompute it.
C9_ConsistentUntilClearOrImport ==
    [][/\ lastOp' = "append" => SummaryMatchesBuffer'
       /\ (lastOp' \in {"setIdentity", "settings", "importFailed"} /\ SummaryMatchesBuffer)
             => SummaryMatchesBuffer']_vars

\* setIdentity after appends: the Summary still matches the buffer
C9_Witness ==
    lastOp = "setIdentity" /\ SummaryMatchesBuffer /\ Len(records) >= 1

\* the first token of a line
FirstToken(line) == Split(Strip(line), SP)[1]
HasRdLine(file) == \E i \in 1..Len(file.lines) : FirstToken(file.lines[i]) = <<"RD">>
FilesWithoutRdLine == {k \in 1..Len(NativeFiles) : ~HasRdLine(NativeFiles[k])}

\* C10: a native import of a file without any RD line fails and leaves the
\* buffer, the cursor, the Meta record and the Summary record as they were.
C10_ImportWithoutEvents ==
    [][\A k \in FilesWithoutRdLine :
          (lastOp' \in {"import", "importFailed"} /\ ImportNativeOf(k)) =>
              /\ lastOp' = "importFailed"
              /\ UNCHANGED <<records, current_record_index, meta_data, data_data>>]_vars

\* a failed import on a store that holds events, a Meta and a Summary record
C10_Witness ==
    /\ lastOp = "importFailed"
    /\ Len(records) >= 1
    /\ meta_data # None
    /\ data_data # None

\* the Event lines of the j-th file with an odd line, parsed
ParsedRdLine == [i \in 1..MaxCap |-> ParseRecordLine(RdLine(i))]
EventsOfCase(j) == SubSeq(ParsedRdLine, 1, OddCases[j][1])

\* C11: a native import of a file of N Event lines and one malformed line,
\* wherever it stands, succeeds, leaves exactly the N events in the buffer
\* and sets the cursor to N.
C11_MalformedLineSkipped ==
    [][\A j \in 1..Len(OddFiles) :
          /\ ~(lastOp' = "importFailed" /\ ImportOddOf(j))
          /\ (lastOp' = "import" /\ lastInput' = Len(NativeFiles) + j) =>
                /\ Len(records') = OddCases[j][1]
                /\ current_record_index' = OddCases[j][1]]_vars

\* C11 as amended: with N >= 1 Event lines and one line that the line parser
\* rejects (its first token is no record kind, or it is its only token), the
\* import succeeds, the buffer is the N events in file order and the cursor
\* is N; with N = 0 the import fails; a line of kind RD with a second token is
\* never rejected, it is imported as one more event.
C11_RejectedLineSkipped ==
    [][\A j \in 1..Len(OddFiles) :
          LET n == OddCases[j][1]
              rejected == OddCases[j][3] \in {1, 2}
          IN  /\ (lastOp' = "importFailed" /\ ImportOddOf(j)) => (rejected /\ n = 0)
              /\ (lastOp' = "import" /\ lastInput' = Len(NativeFiles) + j) =>
                    IF rejected
                    THEN /\ n >= 1
                         /\ records' = EventsOfCase(j)
                         /\ current_record_index' = n
                    ELSE /\ Len(records') = n + 1
                         /\ current_record_index' = n + 1]_vars

\* two Event lines with a line of an unknown kind between them were imported
\* into a buffer that held events
C11_Witness ==
    /\ lastOp = "import"
    /\ lastInput > Len(NativeFiles)
    /\ OddCases[lastInput - Len(NativeFiles)] = <<2, 1, 1>>
    /\ Len(records) = 2
    /\ data_data # None

\* the records of one kind among the lines of the k-th native file
ImportedOfKind(k, kind) == SelectSeq(ParsedFile[k], LAMBDA r : r.record_type = kind)
IndexOf(file) == CHOOSE k \in 1..Len(NativeFiles) : NativeFiles[k] = file

\* C12: a successful native import replaces the state wholesale: the buffer
\* becomes the imported Event records in file order, the cursor their number,
\* Meta the first imported Meta record and Summary the first imported Summary
\* record, each left as it was when the file has none.
C12_ImportReplacesWholesale ==
    [][\A k \in 1..Len(NativeFiles) :
          (lastOp' = "import" /\ lastInput' = k /\ ImportNativeOf(k)) =>
              /\ records' = ImportedOfKind(k, "RD")
              /\ current_record_index' = Len(ImportedOfKind(k, "RD"))
              /\ meta_data' = IF ImportedOfKind(k, "MD") # <<>>
                              THEN ImportedOfKind(k, "MD")[1] ELSE meta_data
              /\ data_data' = IF ImportedOfKind(k, "DD") # <<>>
                              THEN ImportedOfKind(k, "DD")[1] ELSE data_data]_vars

\* a file of Event lines only was imported into a store that had a Meta and
\* a Summary record of its own
C12_Witness ==
    /\ lastOp = "import"
    /\ lastInput = IndexOf(FileOver)
    /\ Len(records) = MaxCap + 1
    /\ meta_data # None
    /\ data_data # None

\* C13: an import of any format that ends with an error leaves the buffer,
\* the cursor, the Meta record and the Summary record as they were before
\* the call.
C13_ImportFailsAtomically ==
    [][lastOp' \in {"importFailed", "csvFailed", "jsonFailed"} =>
          UNCHANGED <<records, current_record_index, meta_data, data_data>>]_vars

\* the rows of a CSV file that have a sensor_ or an actuator_ column
HasDataColumn(row) ==
    \E i \in 1..Len(row) :
        StartsWith(row[i][1], "sensor_") \/ StartsWith(row[i][1], "actuator_")
DataRows(file) == Len(SelectSeq(file.rows, HasDataColumn))

\* C14: a successful CSV import of a file with R data rows makes R
\* appendEvent calls, one per row whatever columns it has, and the cursor
\* grows by R.
C14_OneEventPerRow ==
    [][\A k \in 1..Len(CsvFiles) :
          (lastOp' = "csv" /\ lastInput' = k) =>
              /\ current_record_index' = current_record_index + Len(CsvFiles[k].rows)
              /\ arrived' = arrived + Len(CsvFiles[k].rows)]_vars

\* C14 as amended: a successful CSV import makes one appendEvent call for
\* every row that has at least one sensor_ or actuator_ column and none for
\* any other row; the cursor grows by the number of those rows.
C14_OneEventPerDataRow ==
    [][\A k \in 1..Len(CsvFiles) :
          (lastOp' = "csv" /\ lastInput' = k) =>
              /\ current_record_index' = current_record_index + DataRows(CsvFiles[k])
              /\ arrived' = arrived + DataRows(CsvFiles[k])]_vars

\* a file with a decision column only was imported: the store holds what it
\* held before
C14_Witness ==
    /\ lastOp = "csv"
    /\ lastInput = 3
    /\ CsvFiles[lastInput] = CsvDecisionOnly
    /\ current_record_index >= 1
    /\ Len(records) = current_record_index

\* the record that entered the buffer last
Newest(recs, order, n) == recs[CHOOSE i \in 1..Len(order) : order[i] = n]
IndexOfCsv(file) == CHOOSE k \in 1..Len(CsvFiles) : CsvFiles[k] = file

\* C15: a CSV import takes a sensor or actuator cell that is no number as
\* 0.0, like a blank cell: no error is raised, the row gives its event and
\* the rows after it are imported.
C15_BadCellTakenAsZero ==
    [][(lastOp' \in {"csv", "csvFailed"} /\ ImportCsvOf(IndexOfCsv(CsvBadCell))) =>
          /\ lastOp' = "csv"
          /\ current_record_index' = current_record_index + Len(CsvBadCell.rows)]_vars

\* C15 as amended: only a blank sensor or actuator cell is taken as 0.0; a
\* cell whose text is no number makes the import end with an error, the rows
\* before it imported, its own row and the rows after it not.
C15_BadCellFailsImport ==
    [][/\ (lastOp' \in {"csv", "csvFailed"} /\ ImportCsvOf(IndexOfCsv(CsvBadCell))) =>
             /\ lastOp' = "csvFailed"
             /\ current_record_index' <= current_record_index + 1
             /\ (max_records >= 1 /\ Len(records) <= max_records) =>
                    current_record_index' = current_record_index + 1
       /\ (lastOp' = "csv" /\ lastInput' = IndexOfCsv(CsvGood)) =>
             Get(Newest(records', ids', arrived').fields, "actV", <<>>)
                 = <<"001", COLON, "+0000.00">>]_vars

\* an import has ended with an error on the cell "abc" of the second row,
\* the first row's event in the buffer
C15_Witness ==
    /\ lastOp = "csvFailed"
    /\ max_records >= 1
    /\ Len(records) <= max_records
    /\ current_record_index >= 2
    /\ Get(Newest(records, ids, arrived).fields, "actV", <<>>) = <<"001", COLON, "-0012.30">>

\* C16: for every canonical line of a well-formed record (a known kind first,
\* one field or more, distinct keys, no blank in a key or a value, no colon in
\* a key, a non-empty checksum last when there is one), _parse_record_line
\* accepts the line and _format_record_string of its result is the same line,
\* the record read having the fields of the line in their order.
C16_RoundTrip ==
    roundTrip # <<>> =>
        /\ roundTrip.record # None
        /\ roundTrip.again = roundTrip.line
        /\ roundTrip.record.record_type = sample.record_type
        /\ roundTrip.record.fields = sample.fields
        /\ roundTrip.record.checksum = sample.checksum

\* a line of two fields, the first with colons in its value, and a checksum
\* has been read and written back
C16_Witness ==
    /\ roundTrip # <<>>
    /\ Len(sample.fields) >= 2
    /\ sample.fields[1][2] = <<"01", COLON, "0.23">>
    /\ sample.checksum # <<>>
    /\ roundTrip.again = CanonicalLine(sample)

\* the fields of the event the last appendEvent call returned
Returned == Newest(records, ids, arrived).fields

\* C17: appendEvent with the sensors battery 95.5 and ir_sensor_1 0.23 in that
\* order, the actuator left_wheel -12.3 and the decision 0001, Moving forward
\* returns an event whose battery field is 095, whose infrared field is
\* 01:0.23, whose actuator field is 001:-00012.30, whose decision field is
\* 0001:Moving forward, and which has the connectivity field.
C17_ScenarioFields ==
    lastOp = "append" =>
        /\ Get(Returned, "batL", <<>>) = <<"095">>
        /\ Get(Returned, "irSe", <<>>) = <<"01", COLON, "0.23">>
        /\ Get(Returned, "actV", <<>>) = <<"001", COLON, "-00012.30">>
        /\ Get(Returned, "decC", <<>>) = <<"0001", COLON, "Moving", SP, "forward">>
        /\ Get(Returned, "wifi", <<>>) = <<"1", COLON, "85">>

\* C17, as the code has it: the infrared field carries the position of
\* ir_sensor_1 among all the sensors of the call, 02, and the actuator value
\* is 8 characters wide, sign included: 001:-0012.30.
C17_ScenarioFieldsAsWritten ==
    lastOp = "append" =>
        /\ Get(Returned, "batL", <<>>) = <<"095">>
        /\ Get(Returned, "irSe", <<>>) = <<"02", COLON, "0.23">>
        /\ Get(Returned, "actV", <<>>) = <<"001", COLON, "-0012.30">>
        /\ Get(Returned, "decC", <<>>) = <<"0001", COLON, "Moving", SP, "forward">>
        /\ Get(Returned, "wifi", <<>>) = <<"1", COLON, "85">>

\* the call has returned the event it wrote over the oldest one
C17_Witness ==
    /\ lastOp = "append"
    /\ current_record_index > max_records
    /\ Len(records) = max_records
    /\ HasKey(Returned, "irSe") /\ HasKey(Returned, "actV")

\* the lines of the target file, the text after the last newline included
TargetLines == Split(target, NL)
MetaLines == IF meta_data # None THEN 1 ELSE 0
SummaryLines == IF data_data # None THEN 1 ELSE 0

\* C18: an export that has returned wrote the Meta line, then the Summary
\* line, then one line for each event of the buffer in the order of the
\* slots, each ended by a newline, and nothing else; there are as many event
\* lines as the buffer holds events.
C18_MetaSummaryEvents ==
    lastOp = "export" =>
        /\ Len(TargetLines) = 2 + Len(records) + 1
        /\ TargetLines[Len(TargetLines)] = <<>>
        /\ TargetLines[1] = FormatRecordString(meta_data) /\ TargetLines[1][1] = "MD"
        /\ TargetLines[2] = FormatRecordString(data_data) /\ TargetLines[2][1] = "DD"
        /\ \A i \in 1..Len(records) : TargetLines[2 + i] = FormatRecordString(records[i])

\* C18, as the code has it: the Meta line is written if the store has a Meta
\* record and the Summary line if it has a Summary record; then come the
\* events in the order of the slots; every line ends with a newline and the
\* file holds nothing else.
C18_PresentRecordsThenEvents ==
    lastOp = "export" =>
        /\ Len(TargetLines) = MetaLines + SummaryLines + Len(records) + 1
        /\ TargetLines[Len(TargetLines)] = <<>>
        /\ meta_data # None => TargetLines[1] = FormatRecordString(meta_data)
        /\ data_data # None => TargetLines[MetaLines + 1] = FormatRecordString(data_data)
        /\ \A i \in 1..Len(records) :
               TargetLines[MetaLines + SummaryLines + i] = FormatRecordString(records[i])

\* an export has returned on a store with its Meta record and a buffer that
\* wrapped, so that the newest event is not in the last slot
C18_Witness ==
    /\ lastOp = "export"
    /\ meta_data # None /\ data_data # None
    /\ Len(records) >= 2
    /\ ids[1] > ids[Len(ids)]
    /\ Len(TargetLines) = Len(records) + 3

RECURSIVE SerializedFrom(_, _)
\* the text a whole export of the store S writes, from the k-th record on
SerializedFrom(S, k) ==
    IF k > 2 + Len(S.records) THEN <<>>
    ELSE (IF ItemAt(S, k) = None THEN <<>> ELSE FormatRecordString(ItemAt(S, k)) \o <<NL>>)
            \o SerializedFrom(S, k + 1)

\* C19: wherever an export stops, having returned or having failed on the
\* way, the target file holds the complete text of the store or is as it was
\* when the export was called: never a part of the text only.
C19_ExportAtomic ==
    lastOp \in {"export", "exportFailed"} =>
        \/ target = export.before
        \/ target = SerializedFrom(Store, 1)

\* an export of a store with its Meta record and an event has failed, and of
\* an older, longer file only the Meta line is left
C19_PrefixLeft ==
    /\ lastOp = "exportFailed"
    /\ meta_data # None /\ records # <<>>
    /\ export.before = OldFile
    /\ target = FormatRecordString(meta_data) \o <<NL>>

\* the worker is inside add_robot_data_record; the window is inside
\* clear_records
WorkerInStore == worker.pc \in {"built", "tested", "stored", "read", "counted"}
WindowInStore == ui = "clearing"

\* C20: the accesses to the store exclude one another: the steps of an
\* appendEvent of the auto-logging worker never come between the steps of an
\* operation of the window's thread, nor the other way round; at most one
\* operation on the store is in progress in any state, and no operation of
\* the window changes the store while the worker is inside its appendEvent.
C20_OneOperationInProgress ==
    /\ [](~(WorkerInStore /\ WindowInStore))
    /\ [][WorkerInStore /\ worker' = worker =>
              UNCHANGED <<records, current_record_index, meta_data, data_data>>]_vars

\* the list was cleared between the worker's test at line 197 and its store
\* at line 198, and the store raised IndexError
C20_ClearedUnderWorker ==
    /\ lastOp = "appendRaised"
    /\ worker.pc = "loop"
    /\ records = <<>>
    /\ ui = "clearing"

\* C22: clear empties the event buffer and sets the cursor to zero and
\* changes nothing else: the Meta record, the Summary record with all its
\* fields and the capacity are after the call what they were before it.
C22_ClearFrame ==
    [][lastOp' = "clear" =>
          /\ records' = <<>>
          /\ current_record_index' = 0
          /\ UNCHANGED <<meta_data, data_data, max_records>>]_vars

\* a store with its Meta record has been cleared of a buffer that had
\* wrapped; the Summary still counts the events it held
C22_Witness ==
    /\ lastOp = "clear"
    /\ records = <<>> /\ current_record_index = 0
    /\ meta_data # None /\ data_data # None
    /\ Get(data_data.fields, "ebbN", <<>>) = CountText[2]
    /\ Get(data_data.fields, "ebbX", <<>>) = GenerationText[3]

\* C23: the cursor counts the events ever appended: over any sequence of
\* appendEvent calls, clears, native imports and CSV and JSON imports it
\* never decreases, and it changes only by the appendEvent calls that
\* complete, by one for each.
C23_CursorCountsAppends ==
    /\ current_record_index = 0
    /\ [][/\ current_record_index' >= current_record_index
          /\ lastOp' = "append" => current_record_index' = current_record_index + 1
          /\ lastOp' \in {"clear", "import", "importFailed"} =>
                current_record_index' = current_record_index]_vars

\* C23, as the code has it: an appendEvent call that returns adds one to the
\* cursor (one that raises adds one or nothing); a CSV or JSON import adds
\* one for each event it appends; a clear sets the cursor to zero and a
\* successful native import sets it to the number of events of the file; a
\* failed native import leaves it alone.
C23_CursorSetByClearAndImport ==
    /\ current_record_index = 0
    /\ [][/\ lastOp' = "append" => current_record_index' = current_record_index + 1
          /\ lastOp' = "appendRaised" =>
                current_record_index' \in {current_record_index, current_record_index + 1}
          /\ lastOp' = "csv" =>
                current_record_index' = current_record_index + DataRows(CsvFiles[lastInput'])
          /\ lastOp' = "json" =>
                current_record_index' = current_record_index + Len(JsonDocs[lastInput'].items)
          /\ lastOp' \in {"csvFailed", "jsonFailed"} =>
                current_record_index' >= current_record_index
          /\ lastOp' = "clear" => current_record_index' = 0
          /\ lastOp' = "import" => current_record_index' = Len(records')
          /\ lastOp' = "importFailed" => current_record_index' = current_record_index]_vars

\* a native import of one event into a store whose cursor had counted three
\* appends: the cursor is 1
C23_Witness ==
    /\ lastOp = "import"
    /\ current_record_index = 1
    /\ Len(records) = 1
    /\ data_data # None
    /\ Get(data_data.fields, "ebbX", <<>>) = GenerationText[3]

\* the events of the buffer that arrived first and last
Earliest == records[CHOOSE i \in 1..Len(ids) : \A j \in 1..Len(ids) : ids[i] <= ids[j]]
Latest == records[CHOOSE i \in 1..Len(ids) : \A j \in 1..Len(ids) : ids[i] >= ids[j]]
SummaryStamp(date, time) ==
    Get(data_data.fields, date, <<>>) \o <<SP>> \o Get(data_data.fields, time, <<>>)

\* C24: after any sequence of appendEvent calls on a store whose capacity
\* does not change, longer than the capacity or not, the Summary's fields
\* ebD1 and ebT1 are the timestamp of the event of the buffer that was
\* appended earliest, and ebDM and ebTM the timestamp of the event appended
\* last.
C24_FirstAndLastByArrival ==
    (onlyAppends /\ lastOp = "append") =>
        /\ SummaryStamp("ebD1", "ebT1") = Earliest.timestamp
        /\ SummaryStamp("ebDM", "ebTM") = Latest.timestamp

\* three appends into a store of capacity 2, the third a millisecond after
\* the second: the Summary gives the third event as the first and the
\* second as the last
C24_SlotOrderTaken ==
    /\ onlyAppends /\ lastOp = "append"
    /\ max_records = 2 /\ appendsDone = 3
    /\ Earliest.timestamp # Latest.timestamp
    /\ SummaryStamp("ebD1", "ebT1") = Latest.timestamp
    /\ SummaryStamp("ebDM", "ebTM") = Earliest.timestamp

\* the fields of the event that arrived n-th since the buffer was last empty
Arrival(n) == records[CHOOSE i \in 1..Len(ids) : ids[i] = n].fields
Holds(n) == \E i \in 1..Len(ids) : ids[i] = n

\* C25: a CSV row is routed by the prefixes of its column names: with the
\* columns sensor_battery, actuator_left_wheel, decision_code and
\* decision_reason the event of a row has a battery field from the
\* sensor_battery cell, an actuator field from the actuator_left_wheel cell
\* and the decision field decision_code:decision_reason.  The file has the
\* rows 95.5, -12.3, 0001, Moving forward and (blank), (blank), 0001, Moving
\* forward.
C25_RowRoutedByPrefix ==
    (lastOp = "csv" /\ lastInput = IndexOfCsv(CsvGood)) =>
        /\ Get(Arrival(arrived), "batL", <<>>) = <<"000">>
        /\ Get(Arrival(arrived), "actV", <<>>) = <<"001", COLON, "+0000.00">>
        /\ Get(Arrival(arrived), "decC", <<>>) = <<"0001", COLON, "Moving", SP, "forward">>
        /\ Holds(arrived - 1) =>
              /\ Get(Arrival(arrived - 1), "batL", <<>>) = <<"095">>
              /\ Get(Arrival(arrived - 1), "actV", <<>>) = <<"001", COLON, "-0012.30">>
              /\ Get(Arrival(arrived - 1), "decC", <<>>)
                    = <<"0001", COLON, "Moving", SP, "forward">>

\* the file has been imported and both its events are in the buffer: the
\* first has the actuator field of its row, no battery field, and the
\* decision field 0000: of an empty decision
C25_SensorAndDecisionLost ==
    /\ lastOp = "csv" /\ lastInput = IndexOfCsv(CsvGood)
    /\ Holds(arrived - 1)
    /\ Get(Arrival(arrived - 1), "actV", <<>>) = <<"001", COLON, "-0012.30">>
    /\ ~HasKey(Arrival(arrived - 1), "batL")
    /\ Get(Arrival(arrived - 1), "decC", <<>>) = <<"0000", COLON>>

\* the places, in a dict, of the sensors whose name starts with ir_sensor
InfraredAt(sensor_data) ==
    {i \in 1..Len(sensor_data) : sensor_data[i][1] \in {"ir_sensor_1", "ir_sensor_2"}}
Last(places) == CHOOSE i \in places : \A j \in places : j <= i
KeysOf(d) == {d[i][1] : i \in 1..Len(d)}
Count(d, k) == Cardinality({i \in 1..Len(d) : d[i][1] = k})

\* C26: however many infrared sensors and actuators an appendEvent call is
\* given, the event has at most one field irSe and at most one field actV;
\* irSe holds the place and the value of the last infrared sensor of the
\* dict and actV the place and the value of the last actuator, and nothing
\* in the event comes from the earlier ones.
C26_LastOneWins ==
    (lastOp = "append" /\ lastInput > 0) =>
        LET inp == ManyInputs[lastInput]
            ir == InfraredAt(inp.sensors)
            n == Len(inp.actuators)
        IN  /\ Count(Returned, "irSe") = (IF ir = {} THEN 0 ELSE 1)
            /\ Count(Returned, "actV") = (IF n = 0 THEN 0 ELSE 1)
            /\ ir # {} =>
                  Get(Returned, "irSe", <<>>)
                    = <<PadInt(Last(ir), 2), COLON, Fmt2f(inp.sensors[Last(ir)][2][1])>>
            /\ n > 0 =>
                  Get(Returned, "actV", <<>>)
                    = <<PadInt(n, 3), COLON, FmtSigned8(inp.actuators[n][2][1])>>
            /\ KeysOf(Returned) \subseteq
                  {"recS", "ebbD", "ebbT", "botT", "batL", "irSe", "actV", "decC", "wifi"}

\* an event of two infrared sensors, ir_sensor_2 before ir_sensor_1, and two
\* actuators has been appended: irSe is that of ir_sensor_1, in third place
C26_Witness ==
    /\ lastOp = "append" /\ lastInput > 0
    /\ Len(ManyInputs[lastInput].sensors) = 3
    /\ ManyInputs[lastInput].sensors[2][1] = "ir_sensor_2"
    /\ ManyInputs[lastInput].sensors[3][1] = "ir_sensor_1"
    /\ Len(ManyInputs[lastInput].actuators) = 2
    /\ Get(Returned, "irSe", <<>>) = <<"03", COLON, "0.23">>

\* C27: an appendEvent call that follows a successful native import, whatever
\* Event lines the file held (lines without the field ebbD or ebbT among
\* them), completes without an error: the record is in the buffer, the
\* cursor is one more and the Summary is recomputed.  The capacity is
\* positive.
C27_AppendAfterImport ==
    [][(lastOp = "import" /\ max_records > 0 /\ lastOp' \in {"append", "appendRaised"}) =>
          /\ lastOp' = "append"
          /\ current_record_index' = current_record_index + 1
          /\ Newest(records', ids', arrived').record_type = "RD"
          /\ Get(data_data'.fields, "ebbX", <<>>) = GenerationText[current_record_index']]_vars

\* the file of one Event line without a date was imported into a store of
\* capacity 2 and an appendEvent call followed: the record is in the buffer,
\* the cursor is 2, the call raised and the Summary is not there
C27_RaisedOnUndatedEvent ==
    /\ lastOp = "appendRaised"
    /\ max_records = 2 /\ Len(records) = 2 /\ current_record_index = 2
    /\ records[1].timestamp = <<>>
    /\ records[1] = ParsedFile[IndexOf(FileNoDate)][1]
    /\ data_data = None

\* C28: a store made by setIdentity and appendEvent calls (the identity of
\* the window, decision reasons of several words) is exported and the file
\* imported into a new store: the Meta record and the events of the new
\* store have the fields of those of the exporting store, in the same order
\* with the same values, and the same checksums.
C28_ExportImportSame ==
    [][(/\ lastOp = "export" /\ meta_data # None /\ records # <<>>
        /\ lastOp' \in {"import", "importFailed"}) =>
          /\ lastOp' = "import"
          /\ meta_data'.fields = meta_data.fields
          /\ meta_data'.checksum = meta_data.checksum
          /\ Len(records') = Len(records)
          /\ \A i \in 1..Len(records) :
                /\ records'[i].fields = records[i].fields
                /\ records'[i].checksum = records[i].checksum]_vars

\* the new store has read the file: of the reason Moving forward it has
\* Moving, of the responsible party Admin +86 123456789 it has Admin
C28_ValuesCutAtBlank ==
    /\ lastOp = "import"
    /\ export.calls = 1
    /\ meta_data # None /\ records # <<>>
    /\ Get(records[1].fields, "decC", <<>>) = <<"0001", COLON, "Moving">>
    /\ Get(meta_data.fields, "resP", <<>>) = <<"Admin">>
    /\ Get(meta_data.fields, "ebbN", <<>>) = <<"PyEBB">>

\* C29: after the settings operation has taken a capacity, whatever integer
\* was entered (0, a negative number, a value below the buffer size), the
\* next appendEvent completes without raising and returns the record it
\* has inserted.
C29_AppendAfterSettings ==
    [][(lastOp = "settings" /\ lastOp' \in {"append", "appendRaised"}) =>
          /\ lastOp' = "append"
          /\ Newest(records', ids', arrived').record_type = "RD"]_vars

\* appendEvent has raised on an empty store of capacity 0 (the write index
\* is a remainder by 0), and on an empty store of capacity -1 (the write
\* index 0 is not a position of the empty list)
C29_RaisedAtZero ==
    /\ lastOp = "appendRaised"
    /\ max_records = 0 /\ records = <<>> /\ current_record_index = 0

C29_RaisedBelowZero ==
    /\ lastOp = "appendRaised"
    /\ max_records = -1 /\ records = <<>> /\ current_record_index = 0

\* the field-count part of recS is the number of fields the record holds
CountFits(r) ==
    /\ HasKey(r.fields, "recS")
    /\ Get(r.fields, "recS", <<>>)[1] = PadInt(Len(r.fields), 3)

\* C30: every record the store creates (the Meta record by setIdentity, the
\* event by appendEvent, the Summary by recomputeSummary) has in the
\* field-count part of recS the number of fields it holds, recS included
\* and the checksum excluded.
C30_FieldCountInRecS ==
    [][/\ (lastOp' = "setIdentity" /\ meta_data' # meta_data) => CountFits(meta_data')
       /\ (lastOp' = "append" /\ arrived' # arrived) =>
             /\ CountFits(Newest(records', ids', arrived'))
             /\ data_data' # None /\ CountFits(data_data')]_vars

\* appendEvent has returned: the event counts its fields, the Summary says
\* 010 and holds nine
C30_SummarySaysTen ==
    /\ lastOp = "append"
    /\ records # <<>> /\ CountFits(Newest(records, ids, arrived))
    /\ data_data # None
    /\ Len(data_data.fields) = 9
    /\ Get(data_data.fields, "recS", <<>>) = <<"010", COLON, "00000130">>

\* the threads of auto_log_worker that have not ended, and the executions
\* of log_current_data that have been entered and have not ended
Alive == {k \in 1..MaxThreads : logging.pc[k] # "off"}

InLogCurrentData ==
    {k \in 1..MaxThreads : logging.pc[k] = "log"} \cup (IF logging.manual THEN {0} ELSE {})

\* C21: however start_auto_logging, stop_auto_logging and manual_log
\* interleave with the worker's steps, there are never two workers alive
\* together and never two executions of log_current_data in progress
\* together.
C21_OneLoggingInFlight ==
    /\ Cardinality(Alive) <= 1
    /\ Cardinality(InLogCurrentData) <= 1

\* stopped and started again while the first worker slept: the flag is on
\* and both threads are in the loop, one of them logging
C21_TwoWorkersAlive ==
    /\ logging.auto_logging
    /\ logging.pc[1] = "sleep" /\ logging.pc[2] = "log"
    /\ lastOp = "append"

\* the window is in manual_log while the one worker is in log_current_data
C21_ManualBesideWorker ==
    /\ Alive = {1}
    /\ InLogCurrentData = {0, 1}
====
